---------------------------- MODULE Spec2Model ----------------------------
(***************************************************************************)
(* Model of the service-detection engine of AzureAIArchitect:              *)
(*   AzureServicesDatabase.detectService and its context validators        *)
(*   (src/src/utils/azureServicesDatabase.ts), and                         *)
(*   AdvancedPatternRecognition.analyzeServices with its four detection    *)
(*   passes and mergeAndRankResults (src/src/utils/manualPolicyLoader.ts,  *)
(*   second half of the file) and calculateAccuracyMetrics;                *)
(*   AnalyzerAgent.analyzeDiagram, which chooses between the detector's    *)
(*   results and the AI agent (src/src/agents/analyzer.ts);                *)
(*   the manual policy rule engine of AzureResourceGenerator               *)
(*   (evaluateManualPolicies, autoFixManualPolicyViolations and the        *)
(*   property-path helpers, src/src/agents/generator.ts); and              *)
(*   ManualPolicyLoader with its five-minute cache                         *)
(*   (src/src/utils/manualPolicyLoader.ts, first half of the file).        *)
(*                                                                         *)
(* JSON values are tagged records, objects keep their properties in        *)
(* insertion order, and the JavaScript operators the rule engine applies   *)
(* to them (===, typeof, truthiness, Number, String, JSON.stringify,       *)
(* strict-mode assignment) are computed as the language defines them.      *)
(*                                                                         *)
(* Texts are TLA+ strings handled character by character (Len, SubSeq,     *)
(* \o), so toLowerCase, includes, indexOf and the catalog's regular        *)
(* expressions are computed as the code computes them.                     *)
(*                                                                         *)
(* Confidences are JavaScript numbers with at most five decimal places in  *)
(* every product and sum the code forms; they are kept as exact            *)
(* fixed-point integers in units of 1/Scale (1.0 = 100000, 0.855 = 85500). *)
(* Validator multipliers are kept in tenths (1.0 = 10, 0.8 = 8).           *)
(***************************************************************************)
EXTENDS Integers, Sequences, FiniteSets, TLC

VARIABLES
  text,           \* detectService: the input text of this run
  detections,     \* detectService: the returned list
  pc,             \* detectService run: "call" before, "returned" after
  processedFile,  \* analyzeServices: the processed-file bundle
  results,        \* analyzeServices: the local list `results` (partial results)
  contextual,     \* analyzeServices: what detectFromContext returned
  serviceMap,     \* mergeAndRankResults: values of the local serviceMap, insertion order
  ranked,         \* analyzeServices: the returned list
  stage,          \* analyzeServices: the await the run is at
  resources,      \* validateCompliance: the resource list the fixes mutate in place
  manualPolicies, \* validateCompliance: the policies the loader hands to the run
  violations,     \* evaluateManualPolicies: the violations of the returned result
  fixedResources, \* autoFixManualPolicyViolations: the local list `fixedResources`
  fixErrors,      \* autoFixManualPolicyViolations: the errors its catch block logged
  ruleStage,      \* validateCompliance: the await the run is at
  evalAwait,      \* evaluateManualPolicies: the loadPolicies call it awaits (0: none)
  evalIndex,      \* evaluateManualPolicies: the resource its loop is at
  evalSnapshots,  \* evaluateManualPolicies: the policies loadPolicies returned per resource
  totalPolicies,  \* evaluateManualPolicies: result.totalPolicies (<<>> before the return)
  policyDir,      \* the policies directory on disk: category -> list of file contents
  cachedPolicies, \* ManualPolicyLoader.cachedPolicies (<<>> is null)
  cacheTimestamp, \* ManualPolicyLoader.cacheTimestamp
  now,            \* Date.now()
  calls,          \* the loadPolicies calls in flight or returned, one per caller
  loaderLog,      \* what the loader did, in order (file reads, returns, clearCache)
  metricResults,  \* calculateAccuracyMetrics: the argument `results`
  metrics,        \* calculateAccuracyMetrics: the returned record (<<>> before the call)
  metricStage,    \* calculateAccuracyMetrics run: "call" before, "returned" after
  diagramStage,   \* analyzeDiagram: the step the run is at
  accuracyScore,  \* analyzeDiagram: accuracyMetrics.accuracyScore as computed (<<>> before)
  analysis        \* analyzeDiagram: the returned DiagramAnalysis (<<>> before)

detectVars == <<text, detections, pc, processedFile, results, contextual, serviceMap, ranked, stage>>

ruleVars ==
  <<resources, manualPolicies, violations, fixedResources, fixErrors, ruleStage,
    evalAwait, evalIndex, evalSnapshots, totalPolicies>>

loaderVars == <<policyDir, cachedPolicies, cacheTimestamp, now, calls, loaderLog>>

metricVars == <<metricResults, metrics, metricStage, diagramStage, accuracyScore, analysis>>

vars == <<detectVars, ruleVars, loaderVars, metricVars>>

\* the rule engine is not running
RuleIdle ==
  /\ resources = <<>>
  /\ manualPolicies = <<>>
  /\ violations = <<>>
  /\ fixedResources = <<>>
  /\ fixErrors = <<>>
  /\ ruleStage = "idle"
  /\ evalAwait = 0
  /\ evalIndex = 0
  /\ evalSnapshots = <<>>
  /\ totalPolicies = <<>>

\* no policy loader has been constructed
LoaderIdle ==
  /\ policyDir = <<>>
  /\ cachedPolicies = <<>>
  /\ cacheTimestamp = 0
  /\ now = 0
  /\ calls = <<>>
  /\ loaderLog = <<>>

\* neither calculateAccuracyMetrics nor analyzeDiagram is running
MetricIdle ==
  /\ metricResults = <<>>
  /\ metrics = <<>>
  /\ metricStage = "idle"
  /\ diagramStage = "idle"
  /\ accuracyScore = <<>>
  /\ analysis = <<>>

\* 1.0 as a fixed-point confidence
Scale == 100000

----------------------------------------------------------------------------
(* String primitives of the JavaScript runtime, on TLA+ strings.           *)

UpperCaseLetters == "ABCDEFGHIJKLMNOPQRSTUVWXYZ"
LowerCaseLetters == "abcdefghijklmnopqrstuvwxyz"
Digits == "0123456789"

CharAt(s, i) == SubSeq(s, i, i)

\* 1-based index of the one-character string c in s, 0 when absent
RECURSIVE CharIndexFrom(_, _, _)
CharIndexFrom(s, c, i) ==
  IF i > Len(s) THEN 0
  ELSE IF CharAt(s, i) = c THEN i
  ELSE CharIndexFrom(s, c, i + 1)

\* the lower-case letter of each upper-case letter
UpperToLower == [c \in {CharAt(UpperCaseLetters, k) : k \in 1..26} |->
                   CharAt(LowerCaseLetters, CharIndexFrom(UpperCaseLetters, c, 1))]

LowerChar(c) == IF c \in DOMAIN UpperToLower THEN UpperToLower[c] ELSE c

WordChars ==
  {CharAt(LowerCaseLetters, k) : k \in 1..26} \cup {CharAt(UpperCaseLetters, k) : k \in 1..26}
    \cup {CharAt(Digits, k) : k \in 1..10} \cup {"_"}

\* String.prototype.toLowerCase (ASCII)
RECURSIVE toLowerCase(_)
toLowerCase(s) ==
  IF Len(s) = 0 THEN ""
  ELSE IF Len(s) = 1 THEN LowerChar(s)
  ELSE LET h == Len(s) \div 2
       IN  toLowerCase(SubSeq(s, 1, h)) \o toLowerCase(SubSeq(s, h + 1, Len(s)))

StartsAt(s, i, p) == i >= 1 /\ i + Len(p) - 1 <= Len(s) /\ SubSeq(s, i, i + Len(p) - 1) = p

\* String.prototype.includes
includes(s, p) == \E i \in 1..(Len(s) - Len(p) + 1) : SubSeq(s, i, i + Len(p) - 1) = p

\* String.prototype.indexOf: 0-based index of the first occurrence, -1 when absent
indexOf(s, p) ==
  IF includes(s, p)
  THEN (CHOOSE i \in 1..(Len(s) - Len(p) + 1) :
          /\ StartsAt(s, i, p)
          /\ \A j \in 1..(i - 1) : ~StartsAt(s, j, p)) - 1
  ELSE -1

Abs(n) == IF n < 0 THEN -n ELSE n

\* Array.prototype.some / includes on a sequence
SeqSome(seq, P(_)) == \E i \in 1..Len(seq) : P(seq[i])
SeqIncludes(seq, x) == \E i \in 1..Len(seq) : seq[i] = x

RECURSIVE JoinWith(_, _)
\* Array.prototype.join(sep) for a sequence of strings
JoinWith(seq, sep) ==
  IF Len(seq) = 0 THEN ""
  ELSE IF Len(seq) = 1 THEN seq[1]
  ELSE seq[1] \o sep \o JoinWith(Tail(seq), sep)

----------------------------------------------------------------------------
(* Regular expressions of the catalog.  Every textPattern has the /i flag  *)
(* and is either \bword\b or literals separated by \s*; a pattern is the   *)
(* record [wordBounded, parts].                                            *)

IsWhitespace(c) == c \in {" ", "\t", "\n", "\r"}

\* \w of a regular expression
IsWordChar(c) == c \in WordChars

\* whether the character at position i of s exists and is a word character
WordAt(s, i) == i >= 1 /\ i <= Len(s) /\ IsWordChar(CharAt(s, i))

\* \b between positions i - 1 and i
WordBoundary(s, i) == WordAt(s, i - 1) # WordAt(s, i)

RECURSIVE SkipWhitespace(_, _)
\* \s* is greedy: the first position from i on that holds no whitespace
SkipWhitespace(s, i) ==
  IF i <= Len(s) /\ IsWhitespace(CharAt(s, i)) THEN SkipWhitespace(s, i + 1) ELSE i

RECURSIVE MatchParts(_, _, _, _)
\* the literals parts[k..] separated by \s*, matched at position i of the lowered
\* text: the position after the match, 0 when there is none
MatchParts(lower, i, parts, k) ==
  IF ~StartsAt(lower, i, parts[k]) THEN 0
  ELSE IF k = Len(parts) THEN i + Len(parts[k])
  ELSE MatchParts(lower, SkipWhitespace(lower, i + Len(parts[k])), parts, k + 1)

MatchEndAt(lower, i, pattern) ==
  LET e == MatchParts(lower, i, pattern.parts, 1)
  IN  IF e = 0 THEN 0
      ELSE IF pattern.wordBounded /\ ~(WordBoundary(lower, i) /\ WordBoundary(lower, e)) THEN 0
      ELSE e

\* String.prototype.match(pattern), pattern without the g flag: <<>> for null,
\* else <<match[0]>>, the leftmost match in the original case
match(s, pattern) ==
  LET lower == toLowerCase(s)
      starts == {i \in 1..Len(s) : MatchEndAt(lower, i, pattern) > 0}
  IN  IF starts = {} THEN <<>>
      ELSE LET i == CHOOSE j \in starts : \A m \in starts : j <= m
           IN  <<SubSeq(s, i, MatchEndAt(lower, i, pattern) - 1)>>

----------------------------------------------------------------------------
(* The service catalog: AzureServicesDatabase.services.                    *)

svc_virtual_machines ==
  [ id |-> "virtual-machines", displayName |-> "Virtual Machines",
    resourceType |-> "Microsoft.Compute/virtualMachines",
    alternativeResourceTypes |-> <<"Microsoft.Compute/VirtualMachines", "VM">>,
    keywords |-> <<"virtual machine", "vm", "virtual machines", "compute", "server", "instance">>,
    aliases |-> <<"vm", "vms", "azure vm", "virtual machine", "compute instance">>,
    commonNames |-> <<"VM", "Virtual Machine", "Azure VM", "Compute VM", "Windows VM", "Linux VM">>,
    abbreviations |-> <<"vm", "vms", "avm">>,
    textPatterns |-> <<
      [wordBounded |-> TRUE, parts |-> <<"vm">>],
      [wordBounded |-> FALSE, parts |-> <<"virtual", "machine">>],
      [wordBounded |-> FALSE, parts |-> <<"compute", "instance">>],
      [wordBounded |-> FALSE, parts |-> <<"azure", "vm">>],
      [wordBounded |-> FALSE, parts |-> <<"windows", "vm">>],
      [wordBounded |-> FALSE, parts |-> <<"linux", "vm">>] >>,
    confidence |-> [exact |-> 100000, keyword |-> 95000, pattern |-> 90000] ]

svc_app_service ==
  [ id |-> "app-service", displayName |-> "App Service",
    resourceType |-> "Microsoft.Web/sites",
    alternativeResourceTypes |-> <<"Microsoft.Web/Sites", "Microsoft.Web/serverfarms">>,
    keywords |-> <<"app service", "web app", "webapp", "web application", "api app", "mobile app">>,
    aliases |-> <<"web app", "webapp", "app service", "azure web app", "web application">>,
    commonNames |-> <<"App Service", "Web App", "API App", "Mobile App", "Function App">>,
    abbreviations |-> <<"as", "wa", "webapp">>,
    textPatterns |-> <<
      [wordBounded |-> FALSE, parts |-> <<"app", "service">>],
      [wordBounded |-> FALSE, parts |-> <<"web", "app">>],
      [wordBounded |-> FALSE, parts |-> <<"web", "application">>],
      [wordBounded |-> FALSE, parts |-> <<"api", "app">>],
      [wordBounded |-> FALSE, parts |-> <<"mobile", "app">>],
      [wordBounded |-> FALSE, parts |-> <<"webapp">>] >>,
    confidence |-> [exact |-> 100000, keyword |-> 95000, pattern |-> 90000] ]

svc_azure_functions ==
  [ id |-> "azure-functions", displayName |-> "Azure Functions",
    resourceType |-> "Microsoft.Web/sites",
    alternativeResourceTypes |-> <<"Microsoft.Web/Sites/functions">>,
    keywords |-> <<"azure functions", "function app", "functions", "serverless", "faas">>,
    aliases |-> <<"functions", "function app", "azure functions", "serverless functions">>,
    commonNames |-> <<"Azure Functions", "Function App", "Functions", "Serverless Functions">>,
    abbreviations |-> <<"af", "func", "functions">>,
    textPatterns |-> <<
      [wordBounded |-> FALSE, parts |-> <<"azure", "functions">>],
      [wordBounded |-> FALSE, parts |-> <<"function", "app">>],
      [wordBounded |-> TRUE, parts |-> <<"functions">>],
      [wordBounded |-> FALSE, parts |-> <<"serverless">>],
      [wordBounded |-> FALSE, parts |-> <<"faas">>] >>,
    confidence |-> [exact |-> 100000, keyword |-> 95000, pattern |-> 90000] ]

svc_sql_database ==
  [ id |-> "sql-database", displayName |-> "SQL Database",
    resourceType |-> "Microsoft.Sql/servers/databases",
    alternativeResourceTypes |-> <<"Microsoft.Sql/servers", "Microsoft.Sql/databases">>,
    keywords |-> <<"sql database", "azure sql", "sql db", "database", "relational database", "mssql">>,
    aliases |-> <<"sql db", "azure sql", "sql database", "azure sql database">>,
    commonNames |-> <<"SQL Database", "Azure SQL", "SQL DB", "Azure SQL Database">>,
    abbreviations |-> <<"sqldb", "sql", "db">>,
    textPatterns |-> <<
      [wordBounded |-> FALSE, parts |-> <<"sql", "database">>],
      [wordBounded |-> FALSE, parts |-> <<"azure", "sql">>],
      [wordBounded |-> FALSE, parts |-> <<"sql", "db">>],
      [wordBounded |-> TRUE, parts |-> <<"sqldb">>],
      [wordBounded |-> FALSE, parts |-> <<"mssql">>],
      [wordBounded |-> FALSE, parts |-> <<"relational", "database">>] >>,
    confidence |-> [exact |-> 100000, keyword |-> 95000, pattern |-> 90000] ]

svc_cosmos_db ==
  [ id |-> "cosmos-db", displayName |-> "Cosmos DB",
    resourceType |-> "Microsoft.DocumentDB/databaseAccounts",
    alternativeResourceTypes |-> <<"Microsoft.DocumentDB/accounts">>,
    keywords |-> <<"cosmos db", "cosmosdb", "document db", "nosql", "mongodb", "cassandra", "graph db">>,
    aliases |-> <<"cosmos", "cosmosdb", "document db", "azure cosmos">>,
    commonNames |-> <<"Cosmos DB", "Azure Cosmos DB", "DocumentDB", "NoSQL Database">>,
    abbreviations |-> <<"cosmos", "cdb", "docdb">>,
    textPatterns |-> <<
      [wordBounded |-> FALSE, parts |-> <<"cosmos", "db">>],
      [wordBounded |-> FALSE, parts |-> <<"cosmosdb">>],
      [wordBounded |-> FALSE, parts |-> <<"document", "db">>],
      [wordBounded |-> FALSE, parts |-> <<"azure", "cosmos">>],
      [wordBounded |-> FALSE, parts |-> <<"nosql">>],
      [wordBounded |-> FALSE, parts |-> <<"mongodb", "api">>] >>,
    confidence |-> [exact |-> 100000, keyword |-> 95000, pattern |-> 90000] ]

svc_storage_account ==
  [ id |-> "storage-account", displayName |-> "Storage Account",
    resourceType |-> "Microsoft.Storage/storageAccounts",
    alternativeResourceTypes |-> <<"Microsoft.Storage/StorageAccounts">>,
    keywords |-> <<"storage account", "blob storage", "file storage", "queue storage", "table storage", "azure storage">>,
    aliases |-> <<"storage", "blob", "azure storage", "storage account">>,
    commonNames |-> <<"Storage Account", "Blob Storage", "Azure Storage", "File Storage">>,
    abbreviations |-> <<"sa", "storage", "blob">>,
    textPatterns |-> <<
      [wordBounded |-> FALSE, parts |-> <<"storage", "account">>],
      [wordBounded |-> FALSE, parts |-> <<"blob", "storage">>],
      [wordBounded |-> FALSE, parts |-> <<"azure", "storage">>],
      [wordBounded |-> FALSE, parts |-> <<"file", "storage">>],
      [wordBounded |-> FALSE, parts |-> <<"queue", "storage">>],
      [wordBounded |-> FALSE, parts |-> <<"table", "storage">>] >>,
    confidence |-> [exact |-> 100000, keyword |-> 95000, pattern |-> 90000] ]

svc_virtual_network ==
  [ id |-> "virtual-network", displayName |-> "Virtual Network",
    resourceType |-> "Microsoft.Network/virtualNetworks",
    alternativeResourceTypes |-> <<"Microsoft.Network/VirtualNetworks">>,
    keywords |-> <<"virtual network", "vnet", "network", "subnet", "vpc">>,
    aliases |-> <<"vnet", "virtual network", "azure vnet", "network">>,
    commonNames |-> <<"Virtual Network", "VNet", "Azure VNet", "Network">>,
    abbreviations |-> <<"vnet", "vn", "net">>,
    textPatterns |-> <<
      [wordBounded |-> FALSE, parts |-> <<"virtual", "network">>],
      [wordBounded |-> TRUE, parts |-> <<"vnet">>],
      [wordBounded |-> FALSE, parts |-> <<"azure", "vnet">>],
      [wordBounded |-> TRUE, parts |-> <<"vpc">>],
      [wordBounded |-> FALSE, parts |-> <<"subnet">>] >>,
    confidence |-> [exact |-> 100000, keyword |-> 95000, pattern |-> 90000] ]

svc_load_balancer ==
  [ id |-> "load-balancer", displayName |-> "Load Balancer",
    resourceType |-> "Microsoft.Network/loadBalancers",
    alternativeResourceTypes |-> <<"Microsoft.Network/LoadBalancers">>,
    keywords |-> <<"load balancer", "lb", "application gateway", "traffic manager", "front door">>,
    aliases |-> <<"lb", "load balancer", "alb", "application gateway">>,
    commonNames |-> <<"Load Balancer", "Application Gateway", "Traffic Manager", "Front Door">>,
    abbreviations |-> <<"lb", "alb", "ag", "tm">>,
    textPatterns |-> <<
      [wordBounded |-> FALSE, parts |-> <<"load", "balancer">>],
      [wordBounded |-> TRUE, parts |-> <<"lb">>],
      [wordBounded |-> FALSE, parts |-> <<"application", "gateway">>],
      [wordBounded |-> FALSE, parts |-> <<"traffic", "manager">>],
      [wordBounded |-> FALSE, parts |-> <<"front", "door">>] >>,
    confidence |-> [exact |-> 100000, keyword |-> 95000, pattern |-> 90000] ]

svc_key_vault ==
  [ id |-> "key-vault", displayName |-> "Key Vault",
    resourceType |-> "Microsoft.KeyVault/vaults",
    alternativeResourceTypes |-> <<"Microsoft.KeyVault/Vaults">>,
    keywords |-> <<"key vault", "keyvault", "secrets", "keys", "certificates", "hsm">>,
    aliases |-> <<"key vault", "keyvault", "vault", "azure key vault">>,
    commonNames |-> <<"Key Vault", "Azure Key Vault", "Vault", "Secrets Vault">>,
    abbreviations |-> <<"kv", "vault", "akv">>,
    textPatterns |-> <<
      [wordBounded |-> FALSE, parts |-> <<"key", "vault">>],
      [wordBounded |-> FALSE, parts |-> <<"keyvault">>],
      [wordBounded |-> FALSE, parts |-> <<"azure", "vault">>],
      [wordBounded |-> FALSE, parts |-> <<"secrets", "vault">>],
      [wordBounded |-> TRUE, parts |-> <<"hsm">>] >>,
    confidence |-> [exact |-> 100000, keyword |-> 95000, pattern |-> 90000] ]

svc_application_insights ==
  [ id |-> "application-insights", displayName |-> "Application Insights",
    resourceType |-> "Microsoft.Insights/components",
    alternativeResourceTypes |-> <<"Microsoft.Insights/Components">>,
    keywords |-> <<"application insights", "app insights", "monitoring", "telemetry", "apm">>,
    aliases |-> <<"app insights", "application insights", "insights", "monitoring">>,
    commonNames |-> <<"Application Insights", "App Insights", "Insights", "APM">>,
    abbreviations |-> <<"ai", "appinsights", "insights">>,
    textPatterns |-> <<
      [wordBounded |-> FALSE, parts |-> <<"application", "insights">>],
      [wordBounded |-> FALSE, parts |-> <<"app", "insights">>],
      [wordBounded |-> TRUE, parts |-> <<"insights">>],
      [wordBounded |-> FALSE, parts |-> <<"telemetry">>],
      [wordBounded |-> TRUE, parts |-> <<"apm">>] >>,
    confidence |-> [exact |-> 100000, keyword |-> 95000, pattern |-> 90000] ]

svc_container_registry ==
  [ id |-> "container-registry", displayName |-> "Container Registry",
    resourceType |-> "Microsoft.ContainerRegistry/registries",
    alternativeResourceTypes |-> <<"Microsoft.ContainerRegistry/Registries">>,
    keywords |-> <<"container registry", "acr", "docker registry", "container images">>,
    aliases |-> <<"acr", "container registry", "docker registry">>,
    commonNames |-> <<"Container Registry", "ACR", "Azure Container Registry">>,
    abbreviations |-> <<"acr", "cr">>,
    textPatterns |-> <<
      [wordBounded |-> FALSE, parts |-> <<"container", "registry">>],
      [wordBounded |-> TRUE, parts |-> <<"acr">>],
      [wordBounded |-> FALSE, parts |-> <<"docker", "registry">>],
      [wordBounded |-> FALSE, parts |-> <<"azure", "container", "registry">>] >>,
    confidence |-> [exact |-> 100000, keyword |-> 95000, pattern |-> 90000] ]

svc_kubernetes_service ==
  [ id |-> "kubernetes-service", displayName |-> "Kubernetes Service",
    resourceType |-> "Microsoft.ContainerService/managedClusters",
    alternativeResourceTypes |-> <<"Microsoft.ContainerService/ManagedClusters">>,
    keywords |-> <<"kubernetes", "aks", "k8s", "container orchestration", "managed kubernetes">>,
    aliases |-> <<"aks", "kubernetes", "k8s", "azure kubernetes">>,
    commonNames |-> <<"AKS", "Kubernetes Service", "Azure Kubernetes Service", "K8s">>,
    abbreviations |-> <<"aks", "k8s">>,
    textPatterns |-> <<
      [wordBounded |-> FALSE, parts |-> <<"kubernetes">>],
      [wordBounded |-> TRUE, parts |-> <<"aks">>],
      [wordBounded |-> TRUE, parts |-> <<"k8s">>],
      [wordBounded |-> FALSE, parts |-> <<"azure", "kubernetes">>],
      [wordBounded |-> FALSE, parts |-> <<"managed", "kubernetes">>] >>,
    confidence |-> [exact |-> 100000, keyword |-> 95000, pattern |-> 90000] ]

services ==
  << svc_virtual_machines,
     svc_app_service,
     svc_azure_functions,
     svc_sql_database,
     svc_cosmos_db,
     svc_storage_account,
     svc_virtual_network,
     svc_load_balancer,
     svc_key_vault,
     svc_application_insights,
     svc_container_registry,
     svc_kubernetes_service >>

ServiceIds == {services[i].id : i \in 1..Len(services)}

\* AzureServicesDatabase.getServiceById: <<>> for undefined
getServiceById(id) ==
  IF \E i \in 1..Len(services) : services[i].id = id
  THEN <<services[CHOOSE i \in 1..Len(services) :
                    services[i].id = id /\ \A j \in 1..(i - 1) : services[j].id # id]>>
  ELSE <<>>

----------------------------------------------------------------------------
(* AzureServicesDatabase.detectService and the three context validators.   *)

nonAzureKeywords ==
  << "aws", "amazon", "ec2", "s3", "lambda", "rds", "dynamodb", "cloudformation",
     "gcp", "google cloud", "compute engine", "cloud storage", "bigquery",
     "cloud functions", "firestore", "pub/sub", "kubernetes engine", "gke",
     "on-premise", "on-premises", "vmware", "openstack", "alibaba cloud", "oracle cloud" >>

\* the blocklist test ignores case on neither side: the text is not lowered
MutHasNonAzureIndicatorsCaseSensitive(s) ==
  SeqSome(nonAzureKeywords, LAMBDA keyword : includes(s, toLowerCase(keyword)))

hasNonAzureIndicators(s) ==
  LET normalizedText == toLowerCase(s)
  IN  SeqSome(nonAzureKeywords, LAMBDA keyword : includes(normalizedText, toLowerCase(keyword)))

\* any keyword of the service in the text corroborates, the matched token included
MutValidatePatternContextAnyKeyword(m, fullText, service) ==
  LET lowerText == toLowerCase(fullText)
      azureContexts == <<"azure", "microsoft", "cloud", "bicep", "arm template">>
      hasAzureContext == SeqSome(azureContexts, LAMBDA context : includes(lowerText, context))
      hasServiceContext ==
        SeqSome(service.keywords, LAMBDA keyword : includes(lowerText, toLowerCase(keyword)))
  IN  IF hasAzureContext THEN [isValid |-> TRUE, confidenceMultiplier |-> 10]
      ELSE IF hasServiceContext THEN [isValid |-> TRUE, confidenceMultiplier |-> 8]
      ELSE [isValid |-> FALSE, confidenceMultiplier |-> 3]

validatePatternContext(m, fullText, service) ==
  LET lowerText == toLowerCase(fullText)
      azureContexts == <<"azure", "microsoft", "cloud", "bicep", "arm template">>
      hasAzureContext == SeqSome(azureContexts, LAMBDA context : includes(lowerText, context))
      hasServiceContext ==
        SeqSome(service.keywords,
                LAMBDA keyword : /\ includes(lowerText, toLowerCase(keyword))
                                 /\ toLowerCase(keyword) # toLowerCase(m))
  IN  IF hasAzureContext THEN [isValid |-> TRUE, confidenceMultiplier |-> 10]
      ELSE IF hasServiceContext THEN [isValid |-> TRUE, confidenceMultiplier |-> 8]
      ELSE [isValid |-> FALSE, confidenceMultiplier |-> 3]

genericTerms ==
  <<"database", "storage", "server", "application", "network", "web application", "file storage">>

negativeContexts == <<"not", "without", "instead of", "rather than", "except">>

validateKeywordContext(keyword, fullText, service) ==
  LET lowerText == toLowerCase(fullText)
      lowerKeyword == toLowerCase(keyword)
      azureContexts == <<"azure", "microsoft", toLowerCase(service.resourceType)>>
      hasStrongAzureContext == SeqSome(azureContexts, LAMBDA context : includes(lowerText, context))
      hasNegativeContext ==
        SeqSome(negativeContexts,
                LAMBDA negative :
                  LET keywordIndex == indexOf(lowerText, lowerKeyword)
                      negativeIndex == indexOf(lowerText, negative)
                  IN  negativeIndex >= 0 /\ Abs(keywordIndex - negativeIndex) < 50)
  IN  IF SeqIncludes(genericTerms, lowerKeyword) /\ ~hasStrongAzureContext
      THEN [isValid |-> FALSE, confidenceMultiplier |-> 2]
      ELSE IF hasNegativeContext THEN [isValid |-> FALSE, confidenceMultiplier |-> 1]
      ELSE [isValid |-> TRUE, confidenceMultiplier |-> 10]

validateAliasContext(alias, fullText, service) ==
  LET lowerText == toLowerCase(fullText)
      azureContexts == <<"azure", "microsoft", toLowerCase(service.displayName)>>
      hasStrongContext == SeqSome(azureContexts, LAMBDA context : includes(lowerText, context))
  IN  IF SeqIncludes(service.abbreviations, alias) /\ ~hasStrongContext
      THEN [isValid |-> FALSE, confidenceMultiplier |-> 5]
      ELSE [isValid |-> TRUE, confidenceMultiplier |-> 10]

\* the resource type is compared as written, against the lowered text
MutExactTierTypeNotLowered(normalizedText, service) ==
  IF \/ includes(normalizedText, service.resourceType)
     \/ SeqSome(service.alternativeResourceTypes, LAMBDA type : includes(normalizedText, type))
  THEN << [service |-> service.id, confidence |-> service.confidence.exact,
           matchType |-> "exact", matchedText |-> service.resourceType] >>
  ELSE <<>>

\* the exact tier of the service loop: what it pushes, <<>> when it does not match
ExactTier(normalizedText, service) ==
  IF \/ includes(normalizedText, toLowerCase(service.resourceType))
     \/ SeqSome(service.alternativeResourceTypes,
                LAMBDA type : includes(normalizedText, toLowerCase(type)))
  THEN << [service |-> service.id, confidence |-> service.confidence.exact,
           matchType |-> "exact", matchedText |-> service.resourceType] >>
  ELSE <<>>

RECURSIVE MutPatternTierStopsAtRejected(_, _, _)
\* the first pattern that matches ends the loop, validated or not
MutPatternTierStopsAtRejected(s, service, k) ==
  IF k > Len(service.textPatterns) THEN <<>>
  ELSE LET m == match(s, service.textPatterns[k])
       IN  IF m # <<>>
           THEN IF validatePatternContext(m[1], s, service).isValid
                THEN << [service |-> service.id,
                         confidence |-> (service.confidence.pattern
                                         * validatePatternContext(m[1], s, service).confidenceMultiplier) \div 10,
                         matchType |-> "pattern", matchedText |-> m[1]] >>
                ELSE <<>>
           ELSE MutPatternTierStopsAtRejected(s, service, k + 1)

RECURSIVE PatternTierFrom(_, _, _)
\* the pattern loop from pattern k on: the first pattern that matches and validates
PatternTierFrom(s, service, k) ==
  IF k > Len(service.textPatterns) THEN <<>>
  ELSE LET m == match(s, service.textPatterns[k])
       IN  IF m # <<>> /\ validatePatternContext(m[1], s, service).isValid
           THEN << [service |-> service.id,
                    confidence |-> (service.confidence.pattern
                                    * validatePatternContext(m[1], s, service).confidenceMultiplier) \div 10,
                    matchType |-> "pattern", matchedText |-> m[1]] >>
           ELSE PatternTierFrom(s, service, k + 1)

PatternTier(s, service) == PatternTierFrom(s, service, 1)

RECURSIVE KeywordTierFrom(_, _, _)
KeywordTierFrom(s, service, k) ==
  IF k > Len(service.keywords) THEN <<>>
  ELSE LET keyword == service.keywords[k]
       IN  IF /\ includes(toLowerCase(s), toLowerCase(keyword))
              /\ validateKeywordContext(keyword, s, service).isValid
           THEN << [service |-> service.id,
                    confidence |-> (service.confidence.keyword
                                    * validateKeywordContext(keyword, s, service).confidenceMultiplier) \div 10,
                    matchType |-> "keyword", matchedText |-> keyword] >>
           ELSE KeywordTierFrom(s, service, k + 1)

KeywordTier(s, service) == KeywordTierFrom(s, service, 1)

RECURSIVE AliasTierFrom(_, _, _, _)
AliasTierFrom(s, service, names, k) ==
  IF k > Len(names) THEN <<>>
  ELSE LET alias == names[k]
       IN  IF /\ includes(toLowerCase(s), toLowerCase(alias))
              /\ validateAliasContext(alias, s, service).isValid
           THEN << [service |-> service.id,
                    confidence |-> (((service.confidence.keyword * 9) \div 10)
                                    * validateAliasContext(alias, s, service).confidenceMultiplier) \div 10,
                    matchType |-> "keyword", matchedText |-> alias] >>
           ELSE AliasTierFrom(s, service, names, k + 1)

AliasTier(s, service) ==
  AliasTierFrom(s, service, service.aliases \o service.commonNames \o service.abbreviations, 1)

\* one iteration of the service loop: the first tier that pushes a result
DetectForService(s, service) ==
  LET exact == ExactTier(toLowerCase(s), service)
  IN  IF exact # <<>> THEN exact
      ELSE LET pattern == PatternTier(s, service)
           IN  IF pattern # <<>> THEN pattern
               ELSE LET keyword == KeywordTier(s, service)
                    IN  IF keyword # <<>> THEN keyword ELSE AliasTier(s, service)

RECURSIVE ServiceLoopFrom(_, _)
ServiceLoopFrom(s, i) ==
  IF i > Len(services) THEN <<>>
  ELSE DetectForService(s, services[i]) \o ServiceLoopFrom(s, i + 1)

RECURSIVE InsertByConfidence(_, _)
\* x goes behind every entry whose confidence is not below its own (stable)
InsertByConfidence(x, sorted) ==
  IF sorted = <<>> THEN <<x>>
  ELSE IF Head(sorted).confidence >= x.confidence
       THEN <<Head(sorted)>> \o InsertByConfidence(x, Tail(sorted))
       ELSE <<x>> \o sorted

RECURSIVE SortByConfidenceFrom(_, _, _)
SortByConfidenceFrom(list, k, acc) ==
  IF k > Len(list) THEN acc
  ELSE SortByConfidenceFrom(list, k + 1, InsertByConfidence(list[k], acc))

\* the list is left in the order it was built in
MutSortByConfidenceInsertionOrder(list) == list

\* Array.prototype.sort((a, b) => b.confidence - a.confidence): stable, descending
SortByConfidence(list) == SortByConfidenceFrom(list, 1, <<>>)

\* .filter((result, index, self) => index === self.findIndex(r => r.service.id === result.service.id))
FirstPerService(list) ==
  SelectSeq([i \in 1..Len(list) |-> [at |-> i, r |-> list[i]]],
            LAMBDA e : \A j \in 1..(e.at - 1) : list[j].service # e.r.service)

RemoveDuplicates(list) ==
  LET kept == FirstPerService(list)
  IN  [i \in 1..Len(kept) |-> kept[i].r]

\* every tier that matches pushes its own result, and nothing removes duplicates
MutDetectServiceAllTiers(s) ==
  IF hasNonAzureIndicators(s) THEN <<>>
  ELSE LET all[i \in 0..Len(services)] ==
             IF i = 0 THEN <<>>
             ELSE all[i - 1] \o ExactTier(toLowerCase(s), services[i])
                             \o PatternTier(s, services[i])
                             \o KeywordTier(s, services[i])
                             \o AliasTier(s, services[i])
       IN  SortByConfidence(all[Len(services)])

detectService(s) ==
  IF hasNonAzureIndicators(s) THEN <<>>
  ELSE RemoveDuplicates(SortByConfidence(ServiceLoopFrom(s, 1)))

----------------------------------------------------------------------------
(* AdvancedPatternRecognition: the four detection passes and the merge.    *)
(* An optional value is a sequence: <<>> when absent, <<v>> when present;  *)
(* an optional string is "" when absent (the code tests it for truth).     *)

architecturalPatterns ==
  << [name |-> "Three-tier Architecture",
      pattern |-> <<"app-service", "sql-database", "storage-account">>, confidence |-> 95000],
     [name |-> "Microservices with Kubernetes",
      pattern |-> <<"kubernetes-service", "container-registry", "application-insights">>,
      confidence |-> 90000],
     [name |-> "Serverless Architecture",
      pattern |-> <<"azure-functions", "cosmos-db", "application-insights">>, confidence |-> 92000],
     [name |-> "Traditional VM-based",
      pattern |-> <<"virtual-machines", "virtual-network", "load-balancer">>, confidence |-> 88000] >>

RECURSIVE TrimLeft(_)
TrimLeft(s) == IF Len(s) > 0 /\ IsWhitespace(CharAt(s, 1)) THEN TrimLeft(SubSeq(s, 2, Len(s))) ELSE s

RECURSIVE TrimRight(_)
TrimRight(s) ==
  IF Len(s) > 0 /\ IsWhitespace(CharAt(s, Len(s))) THEN TrimRight(SubSeq(s, 1, Len(s) - 1)) ELSE s

\* String.prototype.trim
trim(s) == TrimRight(TrimLeft(s))

\* the strings among `fields` that are not empty, in order
Truthy(fields) == SelectSeq(fields, LAMBDA f : f # "")

extractDrawioText(extractedData) ==
  LET elements == IF extractedData.elements # <<>> THEN extractedData.elements[1] ELSE <<>>
  IN  JoinWith([i \in 1..Len(elements) |->
                  JoinWith(Truthy(<<elements[i].text, elements[i].label,
                                    elements[i].value, elements[i].style>>), " ")], " ")

extractVisioText(extractedData) ==
  LET shapes == IF extractedData.shapes # <<>> THEN extractedData.shapes[1] ELSE <<>>
  IN  JoinWith([i \in 1..Len(shapes) |->
                  JoinWith(Truthy(<<shapes[i].text, shapes[i].name, shapes[i].masterName>>), " ")], " ")

\* the text that detectFromText hands to detectService
TextContent(file) ==
  LET extracted ==
        IF file.extractedData = <<>> THEN ""
        ELSE LET data == file.extractedData[1]
             IN  CASE file.format = "drawio" -> extractDrawioText(data)
                   [] file.format = "vsdx" -> extractVisioText(data)
                   [] file.format = "pdf" -> data.text
                   [] file.format = "svg" ->
                        IF data.textContent # <<>> THEN JoinWith(data.textContent[1], " ") ELSE ""
                   [] OTHER -> file.metadata.originalName
  IN  extracted \o " " \o file.metadata.originalName

TextSource(detection) == IF detection.matchedText # "" THEN detection.matchedText ELSE "unknown"

detectFromText(file) ==
  LET found == detectService(TextContent(file))
  IN  [i \in 1..Len(found) |->
         [service |-> found[i].service,
          confidence |-> found[i].confidence,
          evidence |-> << [type |-> "text", source |-> TextSource(found[i]),
                           confidence |-> found[i].confidence,
                           details |-> "Matched " \o found[i].matchType \o ": "
                                         \o found[i].matchedText] >>,
          position |-> <<>>]]

\* the element contributes the last detection of the list, not the first
MutAnalyzeDrawioElementLast(element) ==
  LET elementText == element.text \o " " \o element.label \o " " \o element.value
                       \o " " \o element.style
      found == detectService(elementText)
  IN  IF Len(found) > 0
      THEN << [service |-> found[Len(found)].service,
               confidence |-> found[Len(found)].confidence,
               evidence |-> << [type |-> "structural", source |-> "drawio_element",
                                confidence |-> found[Len(found)].confidence,
                                details |-> "Draw.io element: " \o trim(elementText)] >>,
               position |-> IF element.geometry # <<>>
                            THEN << [x |-> element.geometry[1].x, y |-> element.geometry[1].y,
                                     width |-> element.geometry[1].width,
                                     height |-> element.geometry[1].height] >>
                            ELSE <<>>] >>
      ELSE <<>>

\* <<>> for null, else <<the DetectionResult>>
analyzeDrawioElement(element) ==
  LET elementText == element.text \o " " \o element.label \o " " \o element.value
                       \o " " \o element.style
      found == detectService(elementText)
  IN  IF Len(found) > 0
      THEN << [service |-> found[1].service,
               confidence |-> found[1].confidence,
               evidence |-> << [type |-> "structural", source |-> "drawio_element",
                                confidence |-> found[1].confidence,
                                details |-> "Draw.io element: " \o trim(elementText)] >>,
               position |-> IF element.geometry # <<>>
                            THEN << [x |-> element.geometry[1].x, y |-> element.geometry[1].y,
                                     width |-> element.geometry[1].width,
                                     height |-> element.geometry[1].height] >>
                            ELSE <<>>] >>
      ELSE <<>>

analyzeVisioShape(shape) ==
  LET shapeText == shape.text \o " " \o shape.name \o " " \o shape.masterName
      found == detectService(shapeText)
  IN  IF Len(found) > 0
      THEN << [service |-> found[1].service,
               confidence |-> found[1].confidence,
               evidence |-> << [type |-> "structural", source |-> "visio_shape",
                                confidence |-> found[1].confidence,
                                details |-> "Visio shape: " \o trim(shapeText)] >>,
               position |-> <<>>] >>
      ELSE <<>>

RECURSIVE FlatMap(_, _, _)
\* the results Op yields for seq[k..], concatenated
FlatMap(seq, Op(_), k) ==
  IF k > Len(seq) THEN <<>> ELSE Op(seq[k]) \o FlatMap(seq, Op, k + 1)

detectFromStructure(file) ==
  LET data == file.extractedData
      drawio == IF file.format = "drawio" /\ data # <<>> /\ data[1].elements # <<>>
                THEN FlatMap(data[1].elements[1], analyzeDrawioElement, 1) ELSE <<>>
      visio ==  IF file.format = "vsdx" /\ data # <<>> /\ data[1].shapes # <<>>
                THEN FlatMap(data[1].shapes[1], analyzeVisioShape, 1) ELSE <<>>
  IN  drawio \o visio

detectFromVisualPatterns(file) == <<>>

\* pattern.pattern.length * 0.6 <= matching, in tenths
MutReachesThresholdSeventy(matching, size) == 10 * matching >= size * 7

ReachesThreshold(matching, size) == 10 * matching >= size * 6

\* what one architectural pattern contributes to detectFromContext
ContextForPattern(existingResults, pattern) ==
  LET detectedServiceIds == [i \in 1..Len(existingResults) |-> existingResults[i].service]
      matchingServices == SelectSeq(pattern.pattern, LAMBDA id : SeqIncludes(detectedServiceIds, id))
      missingServices == SelectSeq(pattern.pattern, LAMBDA id : ~SeqIncludes(detectedServiceIds, id))
      known == SelectSeq(missingServices, LAMBDA id : getServiceById(id) # <<>>)
  IN  IF ReachesThreshold(Len(matchingServices), Len(pattern.pattern))
      THEN [i \in 1..Len(known) |->
              [service |-> known[i],
               confidence |-> (pattern.confidence * 7) \div 10,
               evidence |-> << [type |-> "contextual", source |-> "architectural_pattern",
                                confidence |-> (pattern.confidence * 7) \div 10,
                                details |-> "Inferred from " \o pattern.name \o " pattern"] >>,
               position |-> <<>>]]
      ELSE <<>>

detectFromContext(existingResults, file) ==
  FlatMap(architecturalPatterns, LAMBDA pattern : ContextForPattern(existingResults, pattern), 1)

Min(a, b) == IF a <= b THEN a ELSE b

\* the candidate's evidence and position come first
MutCombineCandidateFirst(existing, result) ==
  [service |-> result.service,
   confidence |-> Min(existing.confidence + result.confidence \div 2, Scale),
   evidence |-> result.evidence \o existing.evidence,
   position |-> IF result.position # <<>> THEN result.position ELSE existing.position]

\* the entry that replaces `existing` when `result` has the same service id
Combine(existing, result) ==
  [service |-> result.service,
   confidence |-> Min(existing.confidence + result.confidence \div 2, Scale),
   evidence |-> existing.evidence \o result.evidence,
   position |-> IF existing.position # <<>> THEN existing.position ELSE result.position]

\* the result is stored first, then found in the map and combined with itself
MutMergeOneStoreFirst(map, result) ==
  LET stored == IF \E i \in 1..Len(map) : map[i].service = result.service
                THEN map ELSE Append(map, result)
  IN  [i \in 1..Len(stored) |->
         IF stored[i].service = result.service THEN Combine(stored[i], result) ELSE stored[i]]

\* serviceMap after one iteration of the merge loop; the Map keeps insertion order
MergeOne(map, result) ==
  IF \E i \in 1..Len(map) : map[i].service = result.service
  THEN [i \in 1..Len(map) |->
          IF map[i].service = result.service THEN Combine(map[i], result) ELSE map[i]]
  ELSE Append(map, result)

RECURSIVE MergeFrom(_, _, _)
MergeFrom(list, k, map) ==
  IF k > Len(list) THEN map ELSE MergeFrom(list, k + 1, MergeOne(map, list[k]))

\* Array.from(serviceMap.values()) at the end of the merge loop
MergedValues(list) == MergeFrom(list, 1, <<>>)

\* the floor at 0.9 instead of 0.5
MutAboveFloorNineTenths(list) == SelectSeq(list, LAMBDA r : 10 * r.confidence > 9 * Scale)

\* .filter(result => result.confidence > 0.5)
AboveFloor(list) == SelectSeq(list, LAMBDA r : 2 * r.confidence > Scale)

\* an entry's confidence is averaged over its evidence items, and nothing is dropped
MutMergeAveragedNoFloor(list) ==
  SortByConfidence([i \in 1..Len(MergedValues(list)) |->
                      [MergedValues(list)[i] EXCEPT
                         !.confidence = @ \div Len(MergedValues(list)[i].evidence)]])

mergeAndRankResults(list) == AboveFloor(SortByConfidence(MergedValues(list)))

----------------------------------------------------------------------------
(* Input texts: the inputs of the accuracy test suite, and every text of   *)
(* up to MaxWords fragments joined by single spaces.                       *)

TestInputs ==
  { "App Service webapp frontend",
    "Azure SQL Database for user data",
    "VM Windows Server 2019",
    "Blob Storage for images",
    "AKS cluster for microservices",
    "CoSMoS DB for NoSQL data",
    "Microsoft.Web/sites configuration",
    "Applicaton Insigths monitoring",
    "ACR for Docker images",
    "Web App connecting to SQL Database with Blob Storage for files",
    "AKS cluster with Container Registry and Application Insights monitoring",
    "Azure Functions triggered by Cosmos DB changes with Key Vault secrets",
    "VMs behind Load Balancer in Virtual Network with VPN Gateway",
    "EC2 instance with RDS database and S3 bucket",
    "Compute Engine with Cloud Storage and BigQuery",
    "Database server with web application and file storage",
    "On-premise VMware vSphere with Oracle database",
    "Azure Corporation uses AWS services",
    "The function app should not use cosmos as a variable name",
    "Microsoft.Compute/virtualMachines/extensions configuration" }

Fragments ==
  { "Azure", "AWS", "App Service", "webapp", "Microsoft.Web/sites",
    "database", "not", "AKS", "file storage", "Key Vault secrets" }

MaxWords == 2

RECURSIVE FragmentSeqs(_)
FragmentSeqs(n) ==
  IF n = 0 THEN {<<>>}
  ELSE FragmentSeqs(n - 1) \cup
       {Append(s, f) : s \in {q \in FragmentSeqs(n - 1) : Len(q) = n - 1}, f \in Fragments}

ComposedTexts == {JoinWith(s, " ") : s \in FragmentSeqs(MaxWords) \ {<<>>}}

\* texts that drive the context validators through their branches: a pattern
\* match without corroboration ahead of one with it, and negation words before
\* and beyond the 50-character distance from a keyword
ValidatorTexts ==
  { "App Service hosting the web  app with mongodb",
    "It does not matter which region hosts the frontend, but do not use serverless",
    "Do not worry about which region hosts the frontend today, simply use serverless" }

InputTexts == TestInputs \cup ComposedTexts \cup ValidatorTexts

----------------------------------------------------------------------------
(* Processed-file bundles: Draw.io bundles of up to MaxElements elements,  *)
(* and one or two bundles of every other shape detectFromText tells apart. *)

NoData == [elements |-> <<>>, shapes |-> <<>>, text |-> "", textContent |-> <<>>]

Geometry(x, y) == << [x |-> x, y |-> y, width |-> 120, height |-> 60] >>

Elements ==
  { [text |-> "", label |-> "", value |-> "App Service webapp", style |-> "rounded=1",
     geometry |-> Geometry(40, 40)],
    [text |-> "", label |-> "", value |-> "Web App", style |-> "", geometry |-> Geometry(200, 40)],
    [text |-> "", label |-> "", value |-> "SQL Database", style |-> "shape=cylinder",
     geometry |-> Geometry(40, 160)],
    [text |-> "Blob Storage", label |-> "", value |-> "", style |-> "", geometry |-> <<>>],
    [text |-> "", label |-> "Function App", value |-> "", style |-> "",
     geometry |-> Geometry(200, 160)],
    [text |-> "", label |-> "AWS Lambda", value |-> "", style |-> "", geometry |-> <<>>],
    [text |-> "", label |-> "", value |-> "User", style |-> "", geometry |-> <<>>] }

MaxElements == 2

RECURSIVE ElementSeqs(_)
ElementSeqs(n) ==
  IF n = 0 THEN {<<>>}
  ELSE ElementSeqs(n - 1) \cup
       {Append(s, e) : s \in {q \in ElementSeqs(n - 1) : Len(q) = n - 1}, e \in Elements}

DrawioFiles ==
  { [format |-> "drawio", metadata |-> [originalName |-> "diagram.drawio"],
     extractedData |-> << [NoData EXCEPT !.elements = <<es>>] >>] : es \in ElementSeqs(MaxElements) }

PdfTexts ==
  { "", "AKS cluster for microservices",
    "AKS with Container Registry, Function App and Cosmos DB",
    "Azure Functions with Cosmos DB and Application Insights" }

OtherFiles ==
  { [format |-> "pdf", metadata |-> [originalName |-> "architecture.pdf"],
     extractedData |-> << [NoData EXCEPT !.text = t] >>] : t \in PdfTexts }
  \cup
  { [format |-> "svg", metadata |-> [originalName |-> "network.svg"],
     extractedData |-> << [NoData EXCEPT !.textContent = c] >>] :
       c \in {<<>>, << <<"Virtual Machines", "Load Balancer">> >>} }
  \cup
  { [format |-> "vsdx", metadata |-> [originalName |-> "landing-zone.vsdx"],
     extractedData |-> << [NoData EXCEPT !.shapes = c] >>] :
       c \in {<<>>, << << [text |-> "Key Vault", name |-> "Sheet.1", masterName |-> ""],
                          [text |-> "", name |-> "", masterName |-> "Key Vault secrets"] >> >>} }
  \cup
  { [format |-> "png", metadata |-> [originalName |-> n], extractedData |-> <<NoData>>] :
       n \in {"diagram.png", "Cosmos DB.png"} }
  \cup
  { [format |-> "unknown", metadata |-> [originalName |-> "Virtual Network"], extractedData |-> <<>>] }

ProcessedFiles == DrawioFiles \cup OtherFiles

IdleFile == [format |-> "unknown", metadata |-> [originalName |-> ""], extractedData |-> <<>>]

----------------------------------------------------------------------------
(* A run of detectService on one text (Spec), and a run of analyzeServices *)
(* on one bundle, one step per await (SpecAnalyze).                        *)

Init ==
  /\ text \in InputTexts
  /\ detections = <<>>
  /\ pc = "call"
  /\ processedFile = IdleFile
  /\ results = <<>>
  /\ contextual = <<>>
  /\ serviceMap = <<>>
  /\ ranked = <<>>
  /\ stage = "idle"
  /\ RuleIdle /\ LoaderIdle /\ MetricIdle

DetectService ==
  /\ pc = "call"
  /\ detections' = detectService(text)
  /\ pc' = "returned"
  /\ UNCHANGED <<text, processedFile, results, contextual, serviceMap, ranked, stage>>
  /\ UNCHANGED <<ruleVars, loaderVars, metricVars>>

Next == DetectService

Spec == Init /\ [][Next]_vars

InitAnalyze ==
  /\ text = ""
  /\ detections = <<>>
  /\ pc = "idle"
  /\ processedFile \in ProcessedFiles
  /\ results = <<>>
  /\ contextual = <<>>
  /\ serviceMap = <<>>
  /\ ranked = <<>>
  /\ stage = "text"
  /\ RuleIdle /\ LoaderIdle /\ MetricIdle

DetectFromText ==
  /\ stage = "text"
  /\ results' = results \o detectFromText(processedFile)
  /\ stage' = "structure"
  /\ UNCHANGED <<text, detections, pc, processedFile, contextual, serviceMap, ranked>>
  /\ UNCHANGED <<ruleVars, loaderVars, metricVars>>

DetectFromStructure ==
  /\ stage = "structure"
  /\ results' = results \o detectFromStructure(processedFile)
  /\ stage' = "visual"
  /\ UNCHANGED <<text, detections, pc, processedFile, contextual, serviceMap, ranked>>
  /\ UNCHANGED <<ruleVars, loaderVars, metricVars>>

DetectFromVisualPatterns ==
  /\ stage = "visual"
  /\ results' = results \o detectFromVisualPatterns(processedFile)
  /\ stage' = "context"
  /\ UNCHANGED <<text, detections, pc, processedFile, contextual, serviceMap, ranked>>
  /\ UNCHANGED <<ruleVars, loaderVars, metricVars>>

DetectFromContext ==
  /\ stage = "context"
  /\ contextual' = detectFromContext(results, processedFile)
  /\ results' = results \o contextual'
  /\ stage' = "merge"
  /\ UNCHANGED <<text, detections, pc, processedFile, serviceMap, ranked>>
  /\ UNCHANGED <<ruleVars, loaderVars, metricVars>>

MergeAndRankResults ==
  /\ stage = "merge"
  /\ serviceMap' = MergedValues(results)
  /\ ranked' = mergeAndRankResults(results)
  /\ stage' = "returned"
  /\ UNCHANGED <<text, detections, pc, processedFile, results, contextual>>
  /\ UNCHANGED <<ruleVars, loaderVars, metricVars>>

NextAnalyze ==
  \/ DetectFromText
  \/ DetectFromStructure
  \/ DetectFromVisualPatterns
  \/ DetectFromContext
  \/ MergeAndRankResults

SpecAnalyze == InitAnalyze /\ [][NextAnalyze]_vars

----------------------------------------------------------------------------
(* Properties of detectService, checked under Spec.                        *)

Returned == pc = "returned"

\* the entries of the returned list for one service id
EntriesFor(id) == SelectSeq(detections, LAMBDA r : r.service = id)

\* some blocklist string occurs in the text, case-insensitively
Blocklisted(s) == \E k \in 1..Len(nonAzureKeywords) : includes(toLowerCase(s), nonAzureKeywords[k])

\* C1: a text that contains a non-Azure indicator string, in any case, yields the
\* empty list, whatever Azure names or resource types it also contains.
C1_BlocklistReturnsEmpty == Returned /\ Blocklisted(text) => detections = <<>>

\* C1 witness: a returned run on a text holding a blocklist string and a resource type
C1_Witness ==
  /\ Returned
  /\ Blocklisted(text)
  /\ includes(text, "Microsoft.Web/sites")
  /\ detections = <<>>

\* the service is returned from the exact tier at its exact weight
ReturnedExact(service) ==
  \E i \in 1..Len(detections) :
    /\ detections[i].service = service.id
    /\ detections[i].confidence = service.confidence.exact
    /\ detections[i].matchType = "exact"

\* C2 as stated: every text that contains a service's canonical resource type
\* yields that service with its exact weight and matchType exact.
C2_Original ==
  Returned =>
    \A k \in 1..Len(services) :
      includes(text, services[k].resourceType) => ReturnedExact(services[k])

\* C2 amended: every text that contains a service's canonical resource type and
\* no non-Azure indicator string yields that service with its exact weight and
\* matchType exact.
C2_ExactTypeWithoutBlocklist ==
  Returned /\ ~Blocklisted(text) =>
    \A k \in 1..Len(services) :
      includes(text, services[k].resourceType) => ReturnedExact(services[k])

\* C2 witness: a text with a canonical resource type and more, no blocklist string
C2_Witness ==
  /\ Returned
  /\ ~Blocklisted(text)
  /\ includes(text, "Microsoft.Web/sites")
  /\ text # "Microsoft.Web/sites"
  /\ ReturnedExact(svc_app_service)

\* C3: the returned list holds at most one entry per service id.
C3_OneEntryPerService ==
  Returned =>
    \A i, j \in 1..Len(detections) : i # j => detections[i].service # detections[j].service

\* the tiers of a service that match and validate for the text, each as <<>> or <<result>>
TierResults(s, service) ==
  ExactTier(toLowerCase(s), service) \o PatternTier(s, service)
    \o KeywordTier(s, service) \o AliasTier(s, service)

\* C3 witness: a service for which several tiers match and validate is returned once
C3_Witness ==
  /\ Returned
  /\ \E k \in 1..Len(services) :
       /\ Len(TierResults(text, services[k])) >= 3
       /\ Len(EntriesFor(services[k].id)) = 1
  /\ Len(detections) >= 2

MaxConfidence(list) ==
  CHOOSE c \in {list[i].confidence : i \in 1..Len(list)} :
    \A i \in 1..Len(list) : list[i].confidence <= c

\* C4 as stated: every returned entry carries the maximum of the confidences that
\* the exact, pattern, keyword and alias tiers assign to its service for the text.
C4_MaxOverTiers ==
  Returned =>
    \A i \in 1..Len(detections) :
      \A k \in 1..Len(services) :
        services[k].id = detections[i].service =>
          detections[i].confidence = MaxConfidence(TierResults(text, services[k]))

\* C5 as stated: 'App Service webapp frontend' yields exactly one result, for
\* app-service, with confidence >= 0.85.
C5_AppServiceScenario ==
  Returned /\ text = "App Service webapp frontend" =>
    /\ Len(detections) = 1
    /\ detections[1].service = "app-service"
    /\ 100 * detections[1].confidence >= 85 * Scale

\* C6 as stated: 'Database server with web application and file storage' yields
\* the empty list.
C6_GenericTermsScenario ==
  Returned /\ text = "Database server with web application and file storage" =>
    detections = <<>>

----------------------------------------------------------------------------
(* Properties of analyzeServices, checked under SpecAnalyze.               *)

AnalyzeReturned == stage = "returned"

PartialsOf(id) == SelectSeq(results, LAMBDA r : r.service = id)

\* the confidence after folding the first k partial results of a service
RECURSIVE FoldedConfidence(_, _)
FoldedConfidence(partials, k) ==
  IF k = 1 THEN partials[1].confidence
  ELSE LET existing == FoldedConfidence(partials, k - 1)
           half == partials[k].confidence \div 2
       IN  IF existing + half <= Scale THEN existing + half ELSE Scale

\* the evidence of the first k partial results, one after the other
RECURSIVE EvidenceInOrder(_, _)
EvidenceInOrder(partials, k) ==
  IF k = 0 THEN <<>> ELSE EvidenceInOrder(partials, k - 1) \o partials[k].evidence

\* the position of the earliest partial result that has one
FirstPosition(partials) ==
  IF \E k \in 1..Len(partials) : partials[k].position # <<>>
  THEN partials[CHOOSE k \in 1..Len(partials) :
                  /\ partials[k].position # <<>>
                  /\ \A j \in 1..(k - 1) : partials[j].position = <<>>].position
  ELSE <<>>

\* the ids of the partial results in order of first encounter
RECURSIVE FirstEncounters(_)
FirstEncounters(list) ==
  IF list = <<>> THEN <<>>
  ELSE LET front == FirstEncounters(SubSeq(list, 1, Len(list) - 1))
           id == list[Len(list)].service
       IN  IF SeqIncludes(front, id) THEN front ELSE Append(front, id)

\* C8: the merge folds the partial results per service id in encounter order: the
\* first is stored as is, each later one replaces the entry with confidence
\* min(existing + candidate * 0.5, 1.0), evidence = existing then candidate, and
\* position = the existing position if there is one, else the candidate's.
C8_MergeFold ==
  AnalyzeReturned =>
    /\ [i \in 1..Len(serviceMap) |-> serviceMap[i].service] = FirstEncounters(results)
    /\ \A i \in 1..Len(serviceMap) :
         LET partials == PartialsOf(serviceMap[i].service)
         IN  /\ Len(partials) = 1 => serviceMap[i] = partials[1]
             /\ serviceMap[i].confidence = FoldedConfidence(partials, Len(partials))
             /\ serviceMap[i].evidence = EvidenceInOrder(partials, Len(partials))
             /\ serviceMap[i].position = FirstPosition(partials)

\* C8 witness: a service with three partial results, the first without a position,
\* the second and third with different positions
C8_Witness ==
  /\ AnalyzeReturned
  /\ \E id \in ServiceIds :
       LET partials == PartialsOf(id)
       IN  /\ Len(partials) = 3
           /\ partials[1].position = <<>>
           /\ partials[2].position # <<>>
           /\ partials[3].position # <<>>
           /\ partials[2].position # partials[3].position

\* C9: a single partial result passes through the merge unchanged: same service,
\* confidence, evidence and position, counted once.
C9_SinglePartialUnchanged ==
  AnalyzeReturned /\ Len(results) = 1 => ranked = results

\* C9 witness: a run whose passes produced exactly one partial result
C9_Witness ==
  /\ AnalyzeReturned
  /\ Len(results) = 1
  /\ Len(ranked) = 1

\* the results of passes 1-3: `results` without what the contextual pass appended
BeforeContext == SubSeq(results, 1, Len(results) - Len(contextual))

DetectedBeforeContext == {BeforeContext[i].service : i \in 1..Len(BeforeContext)}

Members(pattern) == {pattern.pattern[i] : i \in 1..Len(pattern.pattern)}

\* at least 60% of the pattern's members were detected by passes 1-3
SixtyPercentDetected(pattern) ==
  100 * Cardinality(Members(pattern) \cap DetectedBeforeContext) >= 60 * Cardinality(Members(pattern))

\* the contextual results that name the pattern in their evidence
ImpliedBy(pattern) ==
  SelectSeq(contextual,
            LAMBDA r : \E e \in 1..Len(r.evidence) :
                         r.evidence[e].details = "Inferred from " \o pattern.name \o " pattern")

ContextDone == stage \in {"merge", "returned"}

\* C10: for every architectural pattern, if at least 60% of its members are among
\* the results of passes 1-3, each missing member is added once with confidence
\* patternConfidence * 0.7 and one evidence item of type contextual; if fewer
\* are, nothing is added for the pattern.
C10_ContextualPass ==
  ContextDone =>
    \A p \in 1..Len(architecturalPatterns) :
      LET pattern == architecturalPatterns[p]
          implied == ImpliedBy(pattern)
          missing == Members(pattern) \ DetectedBeforeContext
      IN  IF SixtyPercentDetected(pattern)
          THEN /\ {implied[i].service : i \in 1..Len(implied)} = missing
               /\ Len(implied) = Cardinality(missing)
               /\ \A i \in 1..Len(implied) :
                    /\ 10 * implied[i].confidence = 7 * pattern.confidence
                    /\ Len(implied[i].evidence) = 1
                    /\ implied[i].evidence[1].type = "contextual"
          ELSE implied = <<>>

\* C10 witness: one pattern with two of three members detected gets its third
\* member added, another pattern with one member detected gets nothing
C10_Witness ==
  /\ ContextDone
  /\ \E p, q \in 1..Len(architecturalPatterns) :
       /\ Cardinality(Members(architecturalPatterns[p]) \cap DetectedBeforeContext) = 2
       /\ Len(ImpliedBy(architecturalPatterns[p])) = 1
       /\ Cardinality(Members(architecturalPatterns[q]) \cap DetectedBeforeContext) = 1
       /\ ImpliedBy(architecturalPatterns[q]) = <<>>

----------------------------------------------------------------------------
(* JavaScript values of the rule engine: resources and policies are parsed  *)
(* JSON.  A value is a record tagged with its kind; an object keeps its     *)
(* properties in insertion order, an array keeps its items and the named    *)
(* properties assigned to it.  Numbers are integers.  Property keys are     *)
(* plain names: never an array index, `length`, or a name inherited from a  *)
(* prototype.                                                               *)

Undefined == [t |-> "undefined", v |-> 0]
Null == [t |-> "null", v |-> 0]
NaN == [t |-> "NaN", v |-> 0]
Bool(b) == [t |-> "boolean", v |-> b]
Num(n) == [t |-> "number", v |-> n]
Str(s) == [t |-> "string", v |-> s]
Arr(items) == [t |-> "array", v |-> items, p |-> <<>>]
Obj(props) == [t |-> "object", v |-> props]
Prop(k, val) == [k |-> k, v |-> val]

typeof(x) ==
  CASE x.t = "undefined" -> "undefined"
    [] x.t \in {"null", "array", "object"} -> "object"
    [] x.t = "boolean" -> "boolean"
    [] x.t \in {"number", "NaN"} -> "number"
    [] x.t = "string" -> "string"

\* truthiness of a value in a condition
ToBoolean(x) ==
  CASE x.t \in {"undefined", "null", "NaN"} -> FALSE
    [] x.t = "boolean" -> x.v
    [] x.t = "number" -> x.v # 0
    [] x.t = "string" -> x.v # ""
    [] OTHER -> TRUE

isArray(x) == x.t = "array"

IsPrimitive(x) == x.t \notin {"array", "object"}

\* the own named properties of a value
OwnProps(x) ==
  IF x.t = "object" THEN x.v ELSE IF x.t = "array" THEN x.p ELSE <<>>

IndexOfKey(props, k) ==
  IF \E i \in 1..Len(props) : props[i].k = k
  THEN CHOOSE i \in 1..Len(props) : props[i].k = k /\ \A j \in 1..(i - 1) : props[j].k # k
  ELSE 0

\* x[k] for an x that is neither null nor undefined
Get(x, k) ==
  LET i == IndexOfKey(OwnProps(x), k)
  IN IF i = 0 THEN Undefined ELSE OwnProps(x)[i].v

WithProps(x, props) == IF x.t = "object" THEN Obj(props) ELSE [x EXCEPT !.p = props]

\* x[k] = val for an object or array x
Put(x, k, val) ==
  LET i == IndexOfKey(OwnProps(x), k)
  IN WithProps(x, IF i = 0 THEN Append(OwnProps(x), Prop(k, val))
                  ELSE [OwnProps(x) EXCEPT ![i] = Prop(k, val)])

\* x[k] = val in strict-mode code throws a TypeError when x is a primitive
CanAssign(x) == x.t \in {"array", "object"}

\* delete x[k]; on a primitive it deletes from a temporary wrapper
Delete(x, k) ==
  IF x.t \in {"array", "object"}
  THEN WithProps(x, SelectSeq(OwnProps(x), LAMBDA q : q.k # k))
  ELSE x

RECURSIVE SplitFrom(_, _, _, _)
SplitFrom(s, sep, start, i) ==
  IF i > Len(s) THEN << SubSeq(s, start, Len(s)) >>
  ELSE IF CharAt(s, i) = sep
       THEN << SubSeq(s, start, i - 1) >> \o SplitFrom(s, sep, i + 1, i + 1)
       ELSE SplitFrom(s, sep, start, i + 1)

\* String.prototype.split with a one-character separator
split(s, sep) == SplitFrom(s, sep, 1, 1)

RECURSIVE NatToStr(_)
NatToStr(n) ==
  IF n < 10 THEN CharAt(Digits, n + 1)
  ELSE NatToStr(n \div 10) \o CharAt(Digits, (n % 10) + 1)

NumToStr(n) == IF n < 0 THEN "-" \o NatToStr(0 - n) ELSE NatToStr(n)

RECURSIVE StringOf(_)
\* String(x)
StringOf(x) ==
  CASE x.t = "undefined" -> "undefined"
    [] x.t = "null" -> "null"
    [] x.t = "NaN" -> "NaN"
    [] x.t = "boolean" -> IF x.v THEN "true" ELSE "false"
    [] x.t = "number" -> NumToStr(x.v)
    [] x.t = "string" -> x.v
    [] x.t = "array" ->
         JoinWith([i \in 1..Len(x.v) |->
                     IF x.v[i].t \in {"undefined", "null"} THEN "" ELSE StringOf(x.v[i])], ",")
    [] x.t = "object" -> "[object Object]"

DigitValue(c) == CHOOSE d \in 0..9 : CharAt(Digits, d + 1) = c

IsDigits(s) == Len(s) > 0 /\ \A i \in 1..Len(s) : includes(Digits, CharAt(s, i))

RECURSIVE DigitsToNat(_)
DigitsToNat(s) ==
  IF Len(s) = 0 THEN 0
  ELSE 10 * DigitsToNat(SubSeq(s, 1, Len(s) - 1)) + DigitValue(CharAt(s, Len(s)))

\* Number(s) for a string: decimal integers, the empty string, anything else NaN
StringToNumber(s) ==
  LET body == trim(s)
      sign == IF Len(body) > 0 THEN CharAt(body, 1) ELSE ""
      rest == IF sign \in {"-", "+"} THEN SubSeq(body, 2, Len(body)) ELSE body
  IN IF body = "" THEN Num(0)
     ELSE IF IsDigits(rest) THEN Num(IF sign = "-" THEN 0 - DigitsToNat(rest) ELSE DigitsToNat(rest))
     ELSE NaN

\* Number(x)
ToNumber(x) ==
  CASE x.t = "undefined" -> NaN
    [] x.t = "null" -> Num(0)
    [] x.t = "NaN" -> NaN
    [] x.t = "boolean" -> Num(IF x.v THEN 1 ELSE 0)
    [] x.t = "number" -> x
    [] x.t = "string" -> StringToNumber(x.v)
    [] x.t = "array" -> StringToNumber(StringOf(x))
    [] x.t = "object" -> NaN

\* a <= b on numbers: false when either side is NaN
NumberLessEq(a, b) == a.t = "number" /\ b.t = "number" /\ a.v <= b.v

\* a === b.  Two objects or arrays are equal only when they are the same
\* object, and a value read from a resource is never the object a policy
\* file was parsed into.
StrictEquals(a, b) == IsPrimitive(a) /\ IsPrimitive(b) /\ a.t # "NaN" /\ a = b

\* the comparison of Array.prototype.includes (NaN equals NaN)
SameValueZero(a, b) == IsPrimitive(a) /\ IsPrimitive(b) /\ a = b

ArrayIncludes(arr, x) == \E i \in 1..Len(arr.v) : SameValueZero(arr.v[i], x)

RECURSIVE JSONStringify(_)
\* JSON.stringify(x) for an x that is not undefined
JSONStringify(x) ==
  CASE x.t \in {"null", "NaN"} -> "null"
    [] x.t = "boolean" -> StringOf(x)
    [] x.t = "number" -> StringOf(x)
    [] x.t = "string" -> "\"" \o x.v \o "\""
    [] x.t = "array" ->
         "[" \o JoinWith([i \in 1..Len(x.v) |->
                            IF x.v[i].t = "undefined" THEN "null" ELSE JSONStringify(x.v[i])], ",")
             \o "]"
    [] x.t = "object" ->
         LET kept == SelectSeq(x.v, LAMBDA q : q.v.t # "undefined")
         IN "{" \o JoinWith([i \in 1..Len(kept) |->
                               "\"" \o kept[i].k \o "\":" \o JSONStringify(kept[i].v)], ",")
                \o "}"

----------------------------------------------------------------------------
(* The policies shipped with the repository, as the values JSON.parse makes *)
(* of them.                                                                 *)

policy_sec_003_storage_tls ==
  Obj(<<
    Prop("id", Str("sec-003-storage-tls")),
    Prop("name", Str("Storage Accounts Must Require Secure Transfer")),
    Prop("category", Str("security")),
    Prop("description", Str("All storage accounts must require secure transfer (HTTPS/TLS) for all operations")),
    Prop("severity", Str("high")),
    Prop("resourceTypes", Arr(<<Str("Microsoft.Storage/storageAccounts")>>)),
    Prop("conditions", Obj(<<
      Prop("property", Str("properties.supportsHttpsTrafficOnly")),
      Prop("operator", Str("notEquals")),
      Prop("value", Bool(TRUE)) >>)),
    Prop("fix", Obj(<<
      Prop("action", Str("set")),
      Prop("property", Str("properties.supportsHttpsTrafficOnly")),
      Prop("value", Bool(TRUE)) >>)),
    Prop("bicepModification", Obj(<<
      Prop("template", Str("resource storageAccount 'Microsoft.Storage/storageAccounts@2022-09-01' = {\n  properties: {\n    supportsHttpsTrafficOnly: true\n    minimumTlsVersion: 'TLS1_2'\n  }\n}")),
      Prop("parameters", Arr(<<>>)) >>)),
    Prop("enabled", Bool(TRUE)),
    Prop("tags", Arr(<<Str("security"), Str("tls"), Str("storage")>>)) >>)

policy_sec_002_vm_encryption ==
  Obj(<<
    Prop("id", Str("sec-002-vm-encryption")),
    Prop("name", Str("Virtual Machine Disk Encryption Required")),
    Prop("category", Str("security")),
    Prop("description", Str("All virtual machines must have disk encryption enabled to protect data at rest")),
    Prop("severity", Str("critical")),
    Prop("resourceTypes", Arr(<<Str("Microsoft.Compute/virtualMachines")>>)),
    Prop("conditions", Obj(<<
      Prop("property", Str("properties.storageProfile.osDisk.encryptionSettings.enabled")),
      Prop("operator", Str("notEquals")),
      Prop("value", Bool(TRUE)) >>)),
    Prop("fix", Obj(<<
      Prop("action", Str("set")),
      Prop("property", Str("properties.storageProfile.osDisk.encryptionSettings.enabled")),
      Prop("value", Bool(TRUE)) >>)),
    Prop("bicepModification", Obj(<<
      Prop("template", Str("resource vm 'Microsoft.Compute/virtualMachines@2022-03-01' = {\n  properties: {\n    storageProfile: {\n      osDisk: {\n        encryptionSettings: {\n          enabled: true\n        }\n      }\n    }\n  }\n}")),
      Prop("parameters", Arr(<<Str("keyVaultUrl"), Str("keyEncryptionKeyUrl")>>)) >>)),
    Prop("enabled", Bool(TRUE)),
    Prop("tags", Arr(<<Str("security"), Str("encryption"), Str("virtual-machines")>>)) >>)

policy_custom_001_naming ==
  Obj(<<
    Prop("id", Str("custom-001-naming")),
    Prop("name", Str("Organization Naming Convention")),
    Prop("category", Str("custom")),
    Prop("description", Str("Enforce organization-specific naming conventions for all resources")),
    Prop("severity", Str("medium")),
    Prop("resourceTypes", Arr(<<Str("*")>>)),
    Prop("conditions", Obj(<<
      Prop("property", Str("name")),
      Prop("operator", Str("notContains")),
      Prop("value", Str("aisuperman")) >>)),
    Prop("fix", Obj(<<
      Prop("action", Str("set")),
      Prop("property", Str("name")),
      Prop("value", Str("aisuperman-${resourceType}-${environment}")) >>)),
    Prop("bicepModification", Obj(<<
      Prop("template", Str("// Apply naming convention\nname: 'aisuperman-${resourceType}-${environment}-${uniqueString(resourceGroup().id)}'")),
      Prop("parameters", Arr(<<Str("resourceType"), Str("environment")>>)) >>)),
    Prop("enabled", Bool(TRUE)),
    Prop("tags", Arr(<<Str("custom"), Str("naming"), Str("organization")>>)) >>)

policy_perf_001_always_on ==
  Obj(<<
    Prop("id", Str("perf-001-always-on")),
    Prop("name", Str("App Service Always On Configuration")),
    Prop("category", Str("performance")),
    Prop("description", Str("Enable Always On for App Service to prevent cold starts and improve performance")),
    Prop("severity", Str("medium")),
    Prop("resourceTypes", Arr(<<Str("Microsoft.Web/sites")>>)),
    Prop("conditions", Obj(<<
      Prop("property", Str("properties.siteConfig.alwaysOn")),
      Prop("operator", Str("notEquals")),
      Prop("value", Bool(TRUE)) >>)),
    Prop("fix", Obj(<<
      Prop("action", Str("set")),
      Prop("property", Str("properties.siteConfig.alwaysOn")),
      Prop("value", Bool(TRUE)) >>)),
    Prop("bicepModification", Obj(<<
      Prop("template", Str("resource webApp 'Microsoft.Web/sites@2022-03-01' = {\n  properties: {\n    siteConfig: {\n      alwaysOn: true  // Prevents cold starts\n    }\n  }\n}")),
      Prop("parameters", Arr(<<>>)) >>)),
    Prop("enabled", Bool(TRUE)),
    Prop("tags", Arr(<<Str("performance"), Str("app-service"), Str("always-on")>>)) >>)

policy_perf_002_sql_tier ==
  Obj(<<
    Prop("id", Str("perf-002-sql-tier")),
    Prop("name", Str("SQL Database Performance Tier Optimization")),
    Prop("category", Str("performance")),
    Prop("description", Str("Ensure SQL databases use appropriate performance tiers for production workloads")),
    Prop("severity", Str("medium")),
    Prop("resourceTypes", Arr(<<Str("Microsoft.Sql/servers/databases")>>)),
    Prop("conditions", Obj(<<
      Prop("property", Str("sku.tier")),
      Prop("operator", Str("equals")),
      Prop("value", Str("Basic")) >>)),
    Prop("fix", Obj(<<
      Prop("action", Str("set")),
      Prop("property", Str("sku.tier")),
      Prop("value", Str("Standard")) >>)),
    Prop("bicepModification", Obj(<<
      Prop("template", Str("resource sqlDatabase 'Microsoft.Sql/servers/databases@2022-05-01-preview' = {\n  sku: {\n    name: 'S2'\n    tier: 'Standard'  // Better performance than Basic\n  }\n}")),
      Prop("parameters", Arr(<<>>)) >>)),
    Prop("enabled", Bool(TRUE)),
    Prop("tags", Arr(<<Str("performance"), Str("sql-database"), Str("sku")>>)) >>)

policy_unique_policy_id ==
  Obj(<<
    Prop("id", Str("unique-policy-id")),
    Prop("name", Str("Human Readable Policy Name")),
    Prop("category", Str("security|cost|performance|compliance|custom")),
    Prop("description", Str("Detailed description of what this policy enforces")),
    Prop("severity", Str("critical|high|medium|low")),
    Prop("resourceTypes", Arr(<<Str("Microsoft.Compute/virtualMachines"), Str("Microsoft.Web/sites")>>)),
    Prop("conditions", Obj(<<
      Prop("property", Str("path.to.property")),
      Prop("operator", Str("equals|notEquals|contains|notContains|greaterThan|lessThan|exists|notExists")),
      Prop("value", Str("expected-value")) >>)),
    Prop("fix", Obj(<<
      Prop("action", Str("set|remove|add")),
      Prop("property", Str("path.to.property")),
      Prop("value", Str("corrected-value")) >>)),
    Prop("bicepModification", Obj(<<
      Prop("template", Str("bicep template modification")),
      Prop("parameters", Arr(<<Str("param1"), Str("param2")>>)) >>)),
    Prop("enabled", Bool(TRUE)),
    Prop("tags", Arr(<<Str("tag1"), Str("tag2")>>)) >>)

policy_sec_001_https_only ==
  Obj(<<
    Prop("id", Str("sec-001-https-only")),
    Prop("name", Str("Web Apps Must Use HTTPS Only")),
    Prop("category", Str("security")),
    Prop("description", Str("All App Service web applications must enforce HTTPS-only traffic to ensure secure communication")),
    Prop("severity", Str("high")),
    Prop("resourceTypes", Arr(<<Str("Microsoft.Web/sites")>>)),
    Prop("conditions", Obj(<<
      Prop("property", Str("properties.httpsOnly")),
      Prop("operator", Str("notEquals")),
      Prop("value", Bool(TRUE)) >>)),
    Prop("fix", Obj(<<
      Prop("action", Str("set")),
      Prop("property", Str("properties.httpsOnly")),
      Prop("value", Bool(TRUE)) >>)),
    Prop("bicepModification", Obj(<<
      Prop("template", Str("resource webApp 'Microsoft.Web/sites@2022-03-01' = {\n  properties: {\n    httpsOnly: true\n  }\n}")),
      Prop("parameters", Arr(<<>>)) >>)),
    Prop("enabled", Bool(TRUE)),
    Prop("tags", Arr(<<Str("security"), Str("https"), Str("app-service")>>)) >>)

policy_comp_001_required_tags ==
  Obj(<<
    Prop("id", Str("comp-001-required-tags")),
    Prop("name", Str("Required Resource Tags")),
    Prop("category", Str("compliance")),
    Prop("description", Str("All resources must have required tags for compliance and governance")),
    Prop("severity", Str("high")),
    Prop("resourceTypes", Arr(<<Str("*")>>)),
    Prop("conditions", Obj(<<
      Prop("property", Str("tags.Environment")),
      Prop("operator", Str("notExists")),
      Prop("value", Null) >>)),
    Prop("fix", Obj(<<
      Prop("action", Str("set")),
      Prop("property", Str("tags.Environment")),
      Prop("value", Str("Production")) >>)),
    Prop("bicepModification", Obj(<<
      Prop("template", Str("// Add required tags to all resources\ntags: {\n  Environment: 'Production'\n  CostCenter: '12345'\n  Owner: 'IT-Team'\n  Project: 'AzureAIArchitect'\n}")),
      Prop("parameters", Arr(<<Str("environment"), Str("costCenter"), Str("owner"), Str("project")>>)) >>)),
    Prop("enabled", Bool(TRUE)),
    Prop("tags", Arr(<<Str("compliance"), Str("tagging"), Str("governance")>>)) >>)

policy_comp_002_allowed_regions ==
  Obj(<<
    Prop("id", Str("comp-002-allowed-regions")),
    Prop("name", Str("Allowed Azure Regions")),
    Prop("category", Str("compliance")),
    Prop("description", Str("Resources can only be deployed in approved Azure regions for compliance")),
    Prop("severity", Str("critical")),
    Prop("resourceTypes", Arr(<<Str("*")>>)),
    Prop("conditions", Obj(<<
      Prop("property", Str("location")),
      Prop("operator", Str("notContains")),
      Prop("value", Arr(<<Str("West Europe"), Str("North Europe")>>)) >>)),
    Prop("fix", Obj(<<
      Prop("action", Str("set")),
      Prop("property", Str("location")),
      Prop("value", Str("West Europe")) >>)),
    Prop("bicepModification", Obj(<<
      Prop("template", Str("// Ensure resources are deployed in approved regions\nlocation: 'West Europe'  // Approved region")),
      Prop("parameters", Arr(<<Str("allowedLocation")>>)) >>)),
    Prop("enabled", Bool(TRUE)),
    Prop("tags", Arr(<<Str("compliance"), Str("geography"), Str("data-residency")>>)) >>)

policy_cost_002_storage_tier ==
  Obj(<<
    Prop("id", Str("cost-002-storage-tier")),
    Prop("name", Str("Storage Account Default Access Tier Optimization")),
    Prop("category", Str("cost")),
    Prop("description", Str("Set appropriate default access tier for storage accounts to optimize costs")),
    Prop("severity", Str("low")),
    Prop("resourceTypes", Arr(<<Str("Microsoft.Storage/storageAccounts")>>)),
    Prop("conditions", Obj(<<
      Prop("property", Str("properties.accessTier")),
      Prop("operator", Str("equals")),
      Prop("value", Str("Premium")) >>)),
    Prop("fix", Obj(<<
      Prop("action", Str("set")),
      Prop("property", Str("properties.accessTier")),
      Prop("value", Str("Hot")) >>)),
    Prop("bicepModification", Obj(<<
      Prop("template", Str("resource storageAccount 'Microsoft.Storage/storageAccounts@2022-09-01' = {\n  properties: {\n    accessTier: 'Hot'  // Optimized for frequently accessed data\n  }\n}")),
      Prop("parameters", Arr(<<>>)) >>)),
    Prop("enabled", Bool(TRUE)),
    Prop("tags", Arr(<<Str("cost"), Str("storage"), Str("access-tier")>>)) >>)

policy_cost_001_vm_sizing ==
  Obj(<<
    Prop("id", Str("cost-001-vm-sizing")),
    Prop("name", Str("Virtual Machine Right Sizing")),
    Prop("category", Str("cost")),
    Prop("description", Str("Prevent oversized VM SKUs that exceed typical workload requirements")),
    Prop("severity", Str("medium")),
    Prop("resourceTypes", Arr(<<Str("Microsoft.Compute/virtualMachines")>>)),
    Prop("conditions", Obj(<<
      Prop("property", Str("properties.hardwareProfile.vmSize")),
      Prop("operator", Str("contains")),
      Prop("value", Str("Standard_D32")) >>)),
    Prop("fix", Obj(<<
      Prop("action", Str("set")),
      Prop("property", Str("properties.hardwareProfile.vmSize")),
      Prop("value", Str("Standard_D4s_v3")) >>)),
    Prop("bicepModification", Obj(<<
      Prop("template", Str("resource vm 'Microsoft.Compute/virtualMachines@2022-03-01' = {\n  properties: {\n    hardwareProfile: {\n      vmSize: 'Standard_D4s_v3'  // Right-sized for typical workloads\n    }\n  }\n}")),
      Prop("parameters", Arr(<<>>)) >>)),
    Prop("enabled", Bool(TRUE)),
    Prop("tags", Arr(<<Str("cost"), Str("right-sizing"), Str("virtual-machines")>>)) >>)

----------------------------------------------------------------------------
(* The policy rule engine of PolicyComplianceAgent                          *)
(* (src/src/agents/generator.ts).                                           *)

\* String.prototype.startsWith
startsWith(s, p) == Len(p) <= Len(s) /\ SubSeq(s, 1, Len(p)) = p

RECURSIVE GetFrom(_, _, _)
GetFrom(value, parts, i) ==
  IF i > Len(parts) THEN value
  ELSE IF ToBoolean(value) /\ typeof(value) = "object"
       THEN GetFrom(Get(value, parts[i]), parts, i + 1)
       ELSE Undefined

getPropertyValue(context, propertyPath) ==
  GetFrom(context.resource, split(propertyPath, "."), 1)

evaluatePolicyCondition(policy, context) ==
  LET conditions == Get(policy, "conditions")
      actualValue == getPropertyValue(context, Get(conditions, "property").v)
      expectedValue == Get(conditions, "value")
      operator == Get(conditions, "operator")
  IN CASE operator = Str("equals") -> ~StrictEquals(actualValue, expectedValue)
       [] operator = Str("notEquals") -> StrictEquals(actualValue, expectedValue)
       [] operator = Str("contains") ->
            IF isArray(expectedValue) THEN ~ArrayIncludes(expectedValue, actualValue)
            ELSE ~includes(StringOf(actualValue), StringOf(expectedValue))
       [] operator = Str("notContains") ->
            IF isArray(expectedValue) THEN ArrayIncludes(expectedValue, actualValue)
            ELSE includes(StringOf(actualValue), StringOf(expectedValue))
       [] operator = Str("greaterThan") ->
            NumberLessEq(ToNumber(actualValue), ToNumber(expectedValue))
       [] operator = Str("lessThan") ->
            NumberLessEq(ToNumber(expectedValue), ToNumber(actualValue))
       [] operator = Str("exists") -> actualValue = Undefined \/ actualValue = Null
       [] operator = Str("notExists") -> actualValue # Undefined /\ actualValue # Null
       [] OTHER -> FALSE

RECURSIVE SetFrom(_, _, _, _)
SetFrom(current, parts, i, value) ==
  IF i = Len(parts) THEN Put(current, parts[i], value)
  ELSE LET child == Get(current, parts[i])
           next == IF ~ToBoolean(child) \/ typeof(child) # "object" THEN Obj(<<>>) ELSE child
       IN Put(current, parts[i], SetFrom(next, parts, i + 1, value))

setPropertyValue(resource, propertyPath, value) ==
  SetFrom(resource, split(propertyPath, "."), 1, value)

\* the own enumerable properties Object.assign copies from a source
SourceProps(source) ==
  CASE source.t = "object" -> source.v
    [] source.t = "string" ->
         [i \in 1..Len(source.v) |-> Prop(NatToStr(i - 1), Str(CharAt(source.v, i)))]
    [] source.t = "array" ->
         [i \in 1..Len(source.v) |-> Prop(NatToStr(i - 1), source.v[i])] \o source.p
    [] OTHER -> <<>>

RECURSIVE AssignProps(_, _, _)
AssignProps(target, props, i) ==
  IF i > Len(props) THEN target
  ELSE AssignProps(Put(target, props[i].k, props[i].v), props, i + 1)

\* Object.assign(target, source) for an object target
ObjectAssign(target, source) == AssignProps(target, SourceProps(source), 1)

\* how a call ended: normally, or by throwing a TypeError; value is the
\* object the call worked on, as the call left it
Completed(x) == [threw |-> FALSE, value |-> x]
Threw(x) == [threw |-> TRUE, value |-> x]

\* the statements of addPropertyValue after its loop
AddLeaf(current, finalProp, value) ==
  LET target == Get(current, finalProp)
  IN IF isArray(target)
     THEN Completed(Put(current, finalProp, [target EXCEPT !.v = Append(@, value)]))
     ELSE IF typeof(target) = "object"
          THEN IF target = Null THEN Threw(current)
               ELSE Completed(Put(current, finalProp, ObjectAssign(target, value)))
          ELSE IF CanAssign(current) THEN Completed(Put(current, finalProp, value))
               ELSE Threw(current)

RECURSIVE AddFrom(_, _, _, _)
AddFrom(current, parts, i, value) ==
  IF i = Len(parts) THEN AddLeaf(current, parts[i], value)
  ELSE LET child == Get(current, parts[i])
       IN IF ~ToBoolean(child) /\ ~CanAssign(current) THEN Threw(current)
          ELSE LET sub == AddFrom(IF ToBoolean(child) THEN child ELSE Obj(<<>>),
                                  parts, i + 1, value)
               IN IF CanAssign(current)
                  THEN [threw |-> sub.threw, value |-> Put(current, parts[i], sub.value)]
                  ELSE [threw |-> sub.threw, value |-> current]

addPropertyValue(resource, propertyPath, value) ==
  AddFrom(resource, split(propertyPath, "."), 1, value)

RECURSIVE RemoveFrom(_, _, _)
RemoveFrom(current, parts, i) ==
  IF i = Len(parts) THEN Delete(current, parts[i])
  ELSE LET child == Get(current, parts[i])
       IN IF ~ToBoolean(child) THEN current
          ELSE Put(current, parts[i], RemoveFrom(child, parts, i + 1))

removePropertyValue(resource, propertyPath) ==
  RemoveFrom(resource, split(propertyPath, "."), 1)

\* ManualPolicyLoader.getPoliciesForResourceType over the loaded policies
\* getPoliciesForResourceType without its filter
MutGetPoliciesUnfiltered(allPolicies, resourceType) == allPolicies

getPoliciesForResourceType(allPolicies, resourceType) ==
  SelectSeq(allPolicies, LAMBDA policy :
    LET types == Get(policy, "resourceTypes").v
    IN \/ \E i \in 1..Len(types) : types[i] = Str("*")
       \/ \E i \in 1..Len(types) : types[i] = resourceType
       \/ \E i \in 1..Len(types) : startsWith(resourceType.v, types[i].v))

Violation(policy, context) ==
  [ policyId |-> Get(policy, "id"),
    policyName |-> Get(policy, "name"),
    resource |-> context.resourceName,
    resourceType |-> context.resourceType,
    severity |-> Get(policy, "severity"),
    description |-> Get(policy, "description"),
    currentValue |-> getPropertyValue(context, Get(Get(policy, "conditions"), "property").v),
    expectedValue |-> Get(Get(policy, "conditions"), "value"),
    fix |-> Get(policy, "fix"),
    bicepModification |-> Get(policy, "bicepModification") ]

PolicyEvaluationContext(resource) ==
  [ resource |-> resource,
    resourceType |-> Get(resource, "type"),
    resourceName |-> Get(resource, "name"),
    properties |-> IF ToBoolean(Get(resource, "properties"))
                   THEN Get(resource, "properties") ELSE Obj(<<>>) ]

\* the violations one resource adds: the inner loop of evaluateManualPolicies
RECURSIVE ViolationsOf(_, _, _)
ViolationsOf(resource, applicablePolicies, i) ==
  IF i > Len(applicablePolicies) THEN <<>>
  ELSE LET policy == applicablePolicies[i]
           context == PolicyEvaluationContext(resource)
           rest == ViolationsOf(resource, applicablePolicies, i + 1)
       IN IF ~ToBoolean(Get(policy, "enabled")) THEN rest
          ELSE IF evaluatePolicyCondition(policy, context)
               THEN << Violation(policy, context) >> \o rest
               ELSE rest

RECURSIVE EvaluateFrom(_, _, _)
EvaluateFrom(resourceList, policies, r) ==
  IF r > Len(resourceList) THEN <<>>
  ELSE ViolationsOf(resourceList[r],
                    getPoliciesForResourceType(policies, Get(resourceList[r], "type")), 1)
       \o EvaluateFrom(resourceList, policies, r + 1)

\* the `violations` of the result of evaluateManualPolicies
evaluateManualPolicies(resourceList, policies) ==
  IF Len(policies) = 0 THEN <<>> ELSE EvaluateFrom(resourceList, policies, 1)

\* the switch of autoFixManualPolicyViolations on one resource
ApplyFix(resource, fix) ==
  LET action == Get(fix, "action")
      property == Get(fix, "property").v
  IN CASE action = Str("set") ->
            [fixApplied |-> TRUE, threw |-> FALSE,
             value |-> setPropertyValue(resource, property, Get(fix, "value"))]
       [] action = Str("add") ->
            LET outcome == addPropertyValue(resource, property, Get(fix, "value"))
            IN [fixApplied |-> ~outcome.threw, threw |-> outcome.threw, value |-> outcome.value]
       [] action = Str("remove") ->
            [fixApplied |-> TRUE, threw |-> FALSE,
             value |-> removePropertyValue(resource, property)]
       [] OTHER -> [fixApplied |-> FALSE, threw |-> FALSE, value |-> resource]

\* resources.find(r => r.name === violation.resource), as an index (0: none)
FindResource(resourceList, name) ==
  IF \E i \in 1..Len(resourceList) : StrictEquals(Get(resourceList[i], "name"), name)
  THEN CHOOSE i \in 1..Len(resourceList) :
         /\ StrictEquals(Get(resourceList[i], "name"), name)
         /\ \A j \in 1..(i - 1) : ~StrictEquals(Get(resourceList[j], "name"), name)
  ELSE 0

\* one iteration of the loop of autoFixManualPolicyViolations
FixOne(acc, violation) ==
  LET at == FindResource(acc.resources, violation.resource)
  IN IF at = 0 THEN acc
     ELSE LET resource == acc.resources[at]
              outcome == ApplyFix(resource, violation.fix)
              after == [acc.resources EXCEPT ![at] = outcome.value]
          IN IF outcome.threw
             THEN [acc EXCEPT !.resources = after,
                              !.errors = Append(@, [policyId |-> violation.policyId,
                                                    resource |-> violation.resource])]
             ELSE IF outcome.fixApplied
             THEN [acc EXCEPT !.resources = after,
                              !.fixed = Append(@,
                                [ resourceName |-> Get(outcome.value, "name"),
                                  resourceType |-> Get(outcome.value, "type"),
                                  policyId |-> violation.policyId,
                                  policyName |-> violation.policyName,
                                  severity |-> violation.severity,
                                  description |-> violation.description,
                                  fix |-> violation.fix,
                                  originalConfig |-> JSONStringify(resource),
                                  newConfig |-> JSONStringify(outcome.value) ])]
             ELSE acc

RECURSIVE FixFrom(_, _, _)
FixFrom(acc, violationList, i) ==
  IF i > Len(violationList) THEN acc
  ELSE FixFrom(FixOne(acc, violationList[i]), violationList, i + 1)

\* the resources, the returned list and the logged errors after the loop
autoFixManualPolicyViolations(resourceList, violationList) ==
  FixFrom([resources |-> resourceList, fixed |-> <<>>, errors |-> <<>>], violationList, 1)

----------------------------------------------------------------------------
(* Inputs of the rule engine: resources as the generator hands them over    *)
(* (objects with name, type and, when present, properties), and validated   *)
(* policies.  Fix values are primitives, so no fix stores an object of a    *)
(* policy inside a resource.                                                *)

Resource(name, type, props) ==
  Obj(<< Prop("name", Str(name)), Prop("type", Str(type)) >> \o props)

\* what a resource may hold at properties.probe (Undefined: no such key)
ActualValues ==
  { Undefined, Null, Bool(TRUE), Bool(FALSE), Num(0), Num(5), Num(10),
    Str(""), Str("5"), Str("TLS1_2"), Str("abc"),
    Arr(<<>>), Arr(<< Str("a") >>), Arr(<< Num(5) >>),
    Obj(<<>>), Obj(<< Prop("inner", Str("x")) >>), Obj(<< Prop("inner", Arr(<<>>)) >>) }

ProbeResources ==
  { Resource("probe", "Microsoft.Web/sites",
             << Prop("properties", Obj(IF v = Undefined THEN <<>> ELSE << Prop("probe", v) >>)) >>)
      : v \in ActualValues }
  \cup { Resource("probe", "Microsoft.Web/sites", <<>>) }

StorageResources ==
  { Resource("stgdata", "Microsoft.Storage/storageAccounts", << Prop("properties", Obj(ps)) >>)
      : ps \in { <<>>,
                 << Prop("supportsHttpsTrafficOnly", Bool(TRUE)) >>,
                 << Prop("supportsHttpsTrafficOnly", Bool(FALSE)) >>,
                 << Prop("supportsHttpsTrafficOnly", Bool(TRUE)), Prop("accessTier", Str("Premium")) >> } }
  \cup { Resource("stgdata", "Microsoft.Storage/storageAccounts", <<>>) }

WebResources ==
  { Resource("aisuperman-web", "Microsoft.Web/sites",
             << Prop("location", Str("West Europe")), Prop("properties", Obj(ps)) >>)
      : ps \in { <<>>,
                 << Prop("httpsOnly", Bool(TRUE)),
                    Prop("siteConfig", Obj(<< Prop("alwaysOn", Bool(TRUE)) >>)) >>,
                 << Prop("httpsOnly", Bool(FALSE)),
                    Prop("siteConfig", Obj(<< Prop("alwaysOn", Bool(FALSE)) >>)) >>,
                 << Prop("httpsOnly", Bool(TRUE)), Prop("siteConfig", Obj(<<>>)) >> } }

OsDisk(ps) ==
  << Prop("properties", Obj(<< Prop("storageProfile", Obj(<< Prop("osDisk", Obj(ps)) >>)) >>)) >>

VmResources ==
  { Resource("vm1", "Microsoft.Compute/virtualMachines", ps)
      : ps \in { <<>>,
                 OsDisk(<<>>),
                 OsDisk(<< Prop("encryptionSettings", Obj(<< Prop("enabled", Bool(TRUE)) >>)) >>),
                 OsDisk(<< Prop("encryptionSettings", Obj(<< Prop("enabled", Bool(FALSE)) >>)) >>) } }

RuleResources == ProbeResources \cup StorageResources \cup WebResources \cup VmResources

ResourceLists == { << r >> : r \in RuleResources }

Operators ==
  { "equals", "notEquals", "contains", "notContains", "greaterThan", "lessThan",
    "exists", "notExists", "matches" }

\* expected values of a condition (Undefined: the policy has no `value`)
ExpectedValues ==
  { Undefined, Null, Bool(TRUE), Num(5), Str("5"), Str("TLS"), Str(""),
    Arr(<< Str("a") >>), Arr(<< Num(5), Str("abc") >>), Arr(<<>>), Obj(<<>>) }

WithValue(props, value) ==
  IF value = Undefined THEN props ELSE Append(props, Prop("value", value))

Policy(id, conditions, fix) ==
  Obj(<< Prop("id", Str(id)), Prop("name", Str(id)), Prop("category", Str("custom")),
         Prop("description", Str(id)), Prop("severity", Str("medium")),
         Prop("resourceTypes", Arr(<< Str("Microsoft.Web") >>)),
         Prop("conditions", conditions), Prop("fix", fix),
         Prop("enabled", Bool(TRUE)) >>)

\* one policy per operator and expected value, on properties.probe
ConditionPolicies ==
  { Policy("probe-condition",
           Obj(WithValue(<< Prop("property", Str("properties.probe")),
                            Prop("operator", Str(op)) >>, e)),
           Obj(<< Prop("action", Str("set")), Prop("property", Str("properties.probe")),
                  Prop("value", Bool(TRUE)) >>))
      : op \in Operators, e \in ExpectedValues }

Fixes ==
  { Obj(WithValue(<< Prop("action", Str(a)), Prop("property", Str(p)) >>, v))
      : a \in {"set", "add"}, p \in {"properties.probe", "properties.probe.inner"},
        v \in {Str("x"), Bool(TRUE)} }
  \cup
  { Obj(<< Prop("action", Str(a)), Prop("property", Str(p)) >>)
      : a \in {"remove"}, p \in {"properties.probe", "properties.probe.inner"} }
  \cup
  { Obj(<< Prop("action", Str("replace")), Prop("property", Str("properties.probe")),
           Prop("value", Str("x")) >>) }

\* policies every probe resource violates, one per fix
FixPolicies ==
  { Policy("probe-fix",
           Obj(<< Prop("property", Str("name")), Prop("operator", Str("contains")),
                  Prop("value", Str("compliant")) >>),
           f)
      : f \in Fixes }

\* the shipped policies in the order loadPolicies collects them
ShippedPolicies ==
  << policy_sec_001_https_only, policy_sec_003_storage_tls, policy_sec_002_vm_encryption,
     policy_cost_002_storage_tier, policy_cost_001_vm_sizing,
     policy_perf_001_always_on, policy_perf_002_sql_tier,
     policy_comp_001_required_tags, policy_comp_002_allowed_regions,
     policy_custom_001_naming >>

MaxPolicies == 2

RECURSIVE FixPolicySeqs(_)
FixPolicySeqs(n) ==
  IF n = 0 THEN {<<>>}
  ELSE FixPolicySeqs(n - 1) \cup
       {Append(s, p) : s \in {q \in FixPolicySeqs(n - 1) : Len(q) = n - 1}, p \in FixPolicies}

\* a shipped policy switched off, beside one that is on
WithDisabledPolicy ==
  << Put(policy_sec_001_https_only, "enabled", Bool(FALSE)), policy_perf_001_always_on >>

PolicyLists ==
  { << p >> : p \in ConditionPolicies \cup { ShippedPolicies[i] : i \in 1..Len(ShippedPolicies) } }
  \cup { ShippedPolicies }
  \cup { WithDisabledPolicy }
  \cup FixPolicySeqs(MaxPolicies)

----------------------------------------------------------------------------
(* A run of validateCompliance over the manual policies: the evaluation,   *)
(* then the fixes (SpecRules).                                              *)

DetectIdle ==
  /\ text = ""
  /\ detections = <<>>
  /\ pc = "idle"
  /\ processedFile = IdleFile
  /\ results = <<>>
  /\ contextual = <<>>
  /\ serviceMap = <<>>
  /\ ranked = <<>>
  /\ stage = "idle"

InitRules ==
  /\ resources \in ResourceLists
  /\ manualPolicies \in PolicyLists
  /\ violations = <<>>
  /\ fixedResources = <<>>
  /\ fixErrors = <<>>
  /\ ruleStage = "evaluate"
  /\ evalAwait = 0
  /\ evalIndex = 0
  /\ evalSnapshots = <<>>
  /\ totalPolicies = <<>>
  /\ DetectIdle /\ LoaderIdle /\ MetricIdle

EvaluateManualPolicies ==
  /\ ruleStage = "evaluate"
  /\ violations' = evaluateManualPolicies(resources, manualPolicies)
  /\ ruleStage' = "fix"
  /\ UNCHANGED <<resources, manualPolicies, fixedResources, fixErrors>>
  /\ UNCHANGED <<evalAwait, evalIndex, evalSnapshots, totalPolicies>>
  /\ UNCHANGED <<detectVars, loaderVars, metricVars>>

AutoFixManualPolicyViolations ==
  /\ ruleStage = "fix"
  /\ LET after == autoFixManualPolicyViolations(resources, violations)
     IN /\ resources' = after.resources
        /\ fixedResources' = after.fixed
        /\ fixErrors' = after.errors
  /\ ruleStage' = "done"
  /\ UNCHANGED <<manualPolicies, violations>>
  /\ UNCHANGED <<evalAwait, evalIndex, evalSnapshots, totalPolicies>>
  /\ UNCHANGED <<detectVars, loaderVars, metricVars>>

NextRules ==
  \/ EvaluateManualPolicies
  \/ AutoFixManualPolicyViolations

SpecRules == InitRules /\ [][NextRules]_vars

----------------------------------------------------------------------------
(* Properties of the rule engine, checked under SpecRules.                  *)

Evaluated == ruleStage = "fix"

FixesDone == ruleStage = "done"

\* evaluateManualPolicies reported the policy against the resource
Reported(policy, resource) ==
  \E i \in 1..Len(violations) :
    /\ violations[i].policyId = Get(policy, "id")
    /\ violations[i].resource = Get(resource, "name")
    /\ violations[i].fix = Get(policy, "fix")

\* the policy is evaluated against the resource
Applies(policy, resource) ==
  /\ ToBoolean(Get(policy, "enabled"))
  /\ Len(getPoliciesForResourceType(<< policy >>, Get(resource, "type"))) = 1

ActualOf(policy, resource) ==
  getPropertyValue([resource |-> resource], Get(Get(policy, "conditions"), "property").v)

ExpectedOf(policy) == Get(Get(policy, "conditions"), "value")

\* C11: two successive applications of one fix to one resource
SameFixTwice(i) ==
  /\ i + 1 <= Len(fixedResources)
  /\ fixedResources[i].fix = fixedResources[i + 1].fix
  /\ fixedResources[i].resourceName = fixedResources[i + 1].resourceName
  /\ fixedResources[i].newConfig = fixedResources[i + 1].originalConfig

\* C11: fix idempotence.  Whenever the same set, add or remove fix has been
\* applied twice in a row to a resource, the second application left the
\* resource as the first one made it.
C11_FixIdempotent ==
  \A i \in 1..Len(fixedResources) :
    SameFixTwice(i) => fixedResources[i + 1].newConfig = fixedResources[i + 1].originalConfig

\* the same, for the set and remove fixes only
C11_SetRemoveIdempotent ==
  \A i \in 1..Len(fixedResources) :
    (SameFixTwice(i) /\ Get(fixedResources[i].fix, "action") # Str("add"))
      => fixedResources[i + 1].newConfig = fixedResources[i + 1].originalConfig

\* membership in a list, by value
MemberOf(list, x) == \E i \in 1..Len(list.v) : list.v[i] = x

\* C12: the operator table of the specification
OperatorTable(operator, actual, expected) ==
  CASE operator = "equals" -> actual # expected
    [] operator = "notEquals" -> actual = expected
    [] operator = "contains" ->
         IF isArray(expected) THEN ~MemberOf(expected, actual)
         ELSE ~includes(StringOf(actual), StringOf(expected))
    [] operator = "notContains" ->
         IF isArray(expected) THEN MemberOf(expected, actual)
         ELSE includes(StringOf(actual), StringOf(expected))
    [] operator = "greaterThan" -> NumberLessEq(ToNumber(actual), ToNumber(expected))
    [] operator = "lessThan" -> NumberLessEq(ToNumber(expected), ToNumber(actual))
    [] operator = "exists" -> actual \in {Undefined, Null}
    [] operator = "notExists" -> actual \notin {Undefined, Null}
    [] OTHER -> FALSE

\* C12: after the evaluation, a policy that applies to the resource is
\* reported as violated exactly when the operator table says so for the
\* value at the condition's path (absent included) and the expected value.
C12_OperatorTable ==
  Evaluated =>
    \A p \in 1..Len(manualPolicies), r \in 1..Len(resources) :
      Applies(manualPolicies[p], resources[r]) =>
        (Reported(manualPolicies[p], resources[r])
           <=> OperatorTable(Get(Get(manualPolicies[p], "conditions"), "operator").v,
                             ActualOf(manualPolicies[p], resources[r]),
                             ExpectedOf(manualPolicies[p])))

\* the same, where the actual and the expected value are not both
\* structured (an array or an object)
C12_OperatorTablePrimitive ==
  Evaluated =>
    \A p \in 1..Len(manualPolicies), r \in 1..Len(resources) :
      (/\ Applies(manualPolicies[p], resources[r])
       /\ IsPrimitive(ActualOf(manualPolicies[p], resources[r])))
      =>
        (Reported(manualPolicies[p], resources[r])
           <=> OperatorTable(Get(Get(manualPolicies[p], "conditions"), "operator").v,
                             ActualOf(manualPolicies[p], resources[r]),
                             ExpectedOf(manualPolicies[p])))

\* C13: the rule engine never fails for data-shape reasons.  Whatever the
\* resource holds along a fix path, once the fixes are done no fix has
\* raised: each violation of a known action has its fix recorded as applied.
C13_NoDataShapeError ==
  FixesDone =>
    /\ fixErrors = <<>>
    /\ Len(fixedResources) =
         Len(SelectSeq(violations, LAMBDA v :
               Get(v.fix, "action") \in {Str("set"), Str("add"), Str("remove")}))

\* a raised fix does not stop the loop: the violations after it are fixed
C13_RemainingFixesApplied ==
  FixesDone =>
    Len(fixedResources) + Len(fixErrors) =
      Len(SelectSeq(violations, LAMBDA v :
            Get(v.fix, "action") \in {Str("set"), Str("add"), Str("remove")}))

\* the shipped policies that require a flag to be true
MustBeTruePolicies ==
  { policy_sec_003_storage_tls, policy_sec_001_https_only,
    policy_sec_002_vm_encryption, policy_perf_001_always_on }

\* C17: a shipped `must be true` policy is reported against a resource of
\* its type exactly when the flag it names is false or absent.
C17_MustBeTrueScenario ==
  Evaluated =>
    \A p \in 1..Len(manualPolicies), r \in 1..Len(resources) :
      (manualPolicies[p] \in MustBeTruePolicies /\ Applies(manualPolicies[p], resources[r]))
        => (Reported(manualPolicies[p], resources[r])
              <=> ActualOf(manualPolicies[p], resources[r]) # Bool(TRUE))

----------------------------------------------------------------------------
(* ManualPolicyLoader (src/src/utils/manualPolicyLoader.ts, first half).    *)
(* The policies directory maps an existing category directory to its files; *)
(* a file is its name and what JSON.parse makes of its text (<<>> when the  *)
(* text does not parse).                                                    *)

CACHE_TTL == 5 * 60 * 1000

categories == << "security", "cost", "performance", "compliance", "custom" >>

\* String.prototype.endsWith
endsWith(s, p) == Len(p) <= Len(s) /\ SubSeq(s, Len(s) - Len(p) + 1, Len(s)) = p

\* the policies loadPoliciesByCategory returns for the directory as it is
loadPoliciesByCategory(dir, category) ==
  IF category \notin DOMAIN dir THEN <<>>
  ELSE LET jsonFiles == SelectSeq(dir[category], LAMBDA file : endsWith(file.name, ".json"))
           \* JSON.parse threw, or `policy.category = category` threw on a primitive
           loaded == SelectSeq(jsonFiles, LAMBDA file :
                       file.parsed # <<>> /\ ~IsPrimitive(file.parsed[1]))
       IN [i \in 1..Len(loaded) |-> Put(loaded[i].parsed[1], "category", Str(category))]

requiredFields ==
  << "id", "name", "category", "description", "severity", "resourceTypes", "conditions", "fix" >>

validatePolicy(policy) ==
  LET conditions == Get(policy, "conditions")
      fix == Get(policy, "fix")
      resourceTypes == Get(policy, "resourceTypes")
  IN /\ \A f \in 1..Len(requiredFields) :
          /\ IndexOfKey(OwnProps(policy), requiredFields[f]) # 0
          /\ Get(policy, requiredFields[f]) # Undefined
     /\ Get(policy, "severity") \in {Str("critical"), Str("high"), Str("medium"), Str("low")}
     /\ Get(policy, "category") \in
          {Str("security"), Str("cost"), Str("performance"), Str("compliance"), Str("custom")}
     \* reading a property of null throws, and the catch returns false
     /\ conditions # Null
     /\ ToBoolean(Get(conditions, "property")) /\ ToBoolean(Get(conditions, "operator"))
     /\ fix # Null
     /\ ToBoolean(Get(fix, "action")) /\ ToBoolean(Get(fix, "property"))
     /\ isArray(resourceTypes) /\ Len(resourceTypes.v) # 0

RECURSIVE ReadCategoriesFrom(_, _)
ReadCategoriesFrom(dir, c) ==
  IF c > Len(categories) THEN <<>>
  ELSE loadPoliciesByCategory(dir, categories[c]) \o ReadCategoriesFrom(dir, c + 1)

\* the validPolicies of loadPolicies on a cache miss
ReadValidPolicies(dir) == SelectSeq(ReadCategoriesFrom(dir, 1), validatePolicy)

\* the cache test at the head of loadPolicies
CacheIsValid == cachedPolicies # <<>> /\ (now - cacheTimestamp) < CACHE_TTL

----------------------------------------------------------------------------
(* Policy directories.  Beside two shipped policies there is one more file  *)
(* in security/: a variant of a shipped policy, well-formed or not.         *)

File(name, value) == [name |-> name, parsed |-> << value >>]

WithCondition(policy, k, val) == Put(policy, "conditions", Put(Get(policy, "conditions"), k, val))

WithFix(policy, k, val) == Put(policy, "fix", Put(Get(policy, "fix"), k, val))

\* policy files that miss a required field
FilesMissingField ==
  { File("variant.json", Delete(policy_sec_003_storage_tls, requiredFields[f]))
      : f \in 1..Len(requiredFields) }

\* policy files with a value outside an enumeration of the policy schema
FilesInvalidEnum ==
  { File("variant.json", Put(policy_sec_003_storage_tls, "severity", Str("urgent"))),
    File("variant.json", Put(policy_sec_003_storage_tls, "category", Str("networking"))),
    File("variant.json", WithCondition(policy_sec_003_storage_tls, "operator", Str("matches"))),
    File("variant.json", WithFix(policy_sec_003_storage_tls, "action", Str("replace"))) }

\* policy files that are malformed in another way
FilesMalformed ==
  { File("variant.json", Put(policy_sec_003_storage_tls, "conditions", Null)),
    File("variant.json", Put(policy_sec_003_storage_tls, "fix", Null)),
    File("variant.json", Put(policy_sec_003_storage_tls, "conditions", Str("always"))),
    File("variant.json", Put(policy_sec_003_storage_tls, "resourceTypes", Arr(<<>>))),
    File("variant.json", Put(policy_sec_003_storage_tls, "resourceTypes", Str("*"))),
    File("variant.json", Null),
    File("variant.json", Num(5)),
    File("variant.json", Arr(<< policy_sec_003_storage_tls >>)),
    [name |-> "variant.json", parsed |-> <<>>] }

FilesWellFormed ==
  { File("variant.json", policy_sec_003_storage_tls),
    File("variant.json", Put(policy_sec_003_storage_tls, "enabled", Bool(FALSE))),
    File("README.md", policy_sec_003_storage_tls) }

VariantFiles == FilesMissingField \cup FilesInvalidEnum \cup FilesMalformed \cup FilesWellFormed

PolicyDirs ==
  { [c \in {"security", "performance"} |->
       IF c = "security" THEN << File("https-only.json", policy_sec_001_https_only), f >>
       ELSE << File("app-service-always-on.json", policy_perf_001_always_on) >>]
      : f \in VariantFiles }

\* an administrative update: a custom/ directory with one policy appears
EditedDir(dir) ==
  [c \in DOMAIN dir \cup {"custom"} |->
     IF c = "custom" THEN << File("naming.json", policy_custom_001_naming) >> ELSE dir[c]]

----------------------------------------------------------------------------
(* Calls of loadPolicies and clearCache on one loader, interleaved at the   *)
(* awaits of loadPolicies (SpecLoader).  The file reads of one load are     *)
(* taken at the instant the load resumes after them.                        *)

MaxCalls == 2

MaxClears == 1

MaxTicks == 1

\* the clock advances in steps of the TTL
TickMs == CACHE_TTL

\* Date.now() when the loader is constructed
StartTime == 4 * CACHE_TTL

Clears == Len(SelectSeq(loaderLog, LAMBDA e : e.kind = "clear"))

InitLoader ==
  /\ policyDir \in PolicyDirs
  /\ cachedPolicies = <<>>
  /\ cacheTimestamp = 0
  /\ now = StartTime
  /\ calls = <<>>
  /\ loaderLog = <<>>
  /\ DetectIdle /\ RuleIdle /\ MetricIdle

\* loadPolicies up to its return from the cache or its first await
LoadPolicies ==
  /\ Len(calls) < MaxCalls
  /\ IF CacheIsValid
     THEN /\ calls' = Append(calls, [status |-> "returned", startedAt |-> now,
                                     result |-> cachedPolicies[1]])
          /\ loaderLog' = Append(loaderLog, [kind |-> "hit", call |-> Len(calls) + 1,
                                             at |-> now, snapshot |-> cachedPolicies[1]])
     ELSE /\ calls' = Append(calls, [status |-> "loading", startedAt |-> now, result |-> <<>>])
          /\ loaderLog' = Append(loaderLog, [kind |-> "miss", call |-> Len(calls) + 1,
                                             at |-> now, snapshot |-> <<>>])
  /\ UNCHANGED <<policyDir, cachedPolicies, cacheTimestamp, now>>
  /\ UNCHANGED <<detectVars, ruleVars, metricVars>>

\* loadPolicies from the completion of its file reads to its return
LoadPoliciesResume ==
  \E c \in 1..Len(calls) :
    /\ calls[c].status = "loading"
    /\ LET validPolicies == ReadValidPolicies(policyDir)
       IN /\ cachedPolicies' = << validPolicies >>
          /\ cacheTimestamp' = calls[c].startedAt
          /\ calls' = [calls EXCEPT ![c] = [status |-> "returned", startedAt |-> @.startedAt,
                                           result |-> validPolicies]]
          /\ loaderLog' = Append(loaderLog, [kind |-> "loaded", call |-> c,
                                             at |-> calls[c].startedAt,
                                             snapshot |-> validPolicies])
    /\ UNCHANGED <<policyDir, now>>
    /\ UNCHANGED <<detectVars, ruleVars, metricVars>>

ClearCache ==
  /\ Clears < MaxClears
  /\ cachedPolicies' = <<>>
  /\ cacheTimestamp' = 0
  /\ loaderLog' = Append(loaderLog, [kind |-> "clear", call |-> 0, at |-> now, snapshot |-> <<>>])
  /\ UNCHANGED <<policyDir, now, calls>>
  /\ UNCHANGED <<detectVars, ruleVars, metricVars>>

\* time passes
Tick ==
  /\ now < StartTime + MaxTicks * TickMs
  /\ now' = now + TickMs
  /\ UNCHANGED <<policyDir, cachedPolicies, cacheTimestamp, calls, loaderLog>>
  /\ UNCHANGED <<detectVars, ruleVars, metricVars>>

\* the policy files change on disk
EditPolicyFiles ==
  /\ "custom" \notin DOMAIN policyDir
  /\ policyDir' = EditedDir(policyDir)
  /\ UNCHANGED <<cachedPolicies, cacheTimestamp, now, calls, loaderLog>>
  /\ UNCHANGED <<detectVars, ruleVars, metricVars>>

NextLoader ==
  \/ LoadPolicies
  \/ LoadPoliciesResume
  \/ ClearCache
  \/ Tick
  \/ EditPolicyFiles

SpecLoader == InitLoader /\ [][NextLoader]_vars

----------------------------------------------------------------------------
(* Properties of the policy loader, checked under SpecLoader.               *)

\* the files of the directory with the policy each one is loaded as
LoadedFiles ==
  { [file |-> policyDir[c][i], as |-> Put(policyDir[c][i].parsed[1], "category", Str(c))]
      : <<c, i>> \in { <<c, i>> \in (DOMAIN policyDir) \X (1..3) :
                         /\ i <= Len(policyDir[c])
                         /\ policyDir[c][i].parsed # <<>>
                         /\ ~IsPrimitive(policyDir[c][i].parsed[1]) } }

\* what a policy file must hold: the required fields and the enumerations
WellFormedPolicy(value) ==
  /\ value.t = "object"
  /\ \A f \in {"id", "name", "category", "severity", "resourceTypes", "conditions", "fix"} :
       Get(value, f) # Undefined
  /\ Get(value, "severity") \in {Str("critical"), Str("high"), Str("medium"), Str("low")}
  /\ Get(value, "category") \in
       {Str("security"), Str("cost"), Str("performance"), Str("compliance"), Str("custom")}
  /\ Get(value, "conditions").t = "object"
  /\ Get(Get(value, "conditions"), "operator") \in
       {Str("equals"), Str("notEquals"), Str("contains"), Str("notContains"),
        Str("greaterThan"), Str("lessThan"), Str("exists"), Str("notExists")}
  /\ Get(value, "fix").t = "object"
  /\ Get(Get(value, "fix"), "action") \in {Str("set"), Str("add"), Str("remove")}

\* the results of the calls that read the files
LoadedResults ==
  { loaderLog[e].snapshot : e \in { e \in 1..Len(loaderLog) : loaderLog[e].kind = "loaded" } }

InSnapshot(policy, snapshot) == \E i \in 1..Len(snapshot) : snapshot[i] = policy

\* C15: a policy file that misses a required field or carries an invalid
\* enumeration value is in no list that loadPolicies returns, and the
\* well-formed shipped policies beside it are in every such list.
C15_MalformedRejected ==
  \A snapshot \in LoadedResults :
    /\ \A l \in LoadedFiles :
         ~WellFormedPolicy(l.file.parsed[1]) => ~InSnapshot(l.as, snapshot)
    /\ InSnapshot(policy_sec_001_https_only, snapshot)
    /\ InSnapshot(policy_perf_001_always_on, snapshot)

\* the same, for the defects validatePolicy looks for
C15_ValidatedDefectsRejected ==
  \A snapshot \in LoadedResults :
    /\ \A l \in LoadedFiles : ~validatePolicy(l.as) => ~InSnapshot(l.as, snapshot)
    /\ InSnapshot(policy_sec_001_https_only, snapshot)
    /\ InSnapshot(policy_perf_001_always_on, snapshot)

IsCall(e) == e.kind \in {"hit", "miss"}

NoClearBetween(i, j) == \A k \in (i + 1)..(j - 1) : loaderLog[k].kind # "clear"

\* C16: the policy cache.  A call made less than the TTL after a load, with
\* no clearCache in between, returns that load's snapshot without reading
\* the files; the first call after a clearCache, and a call made when the
\* TTL of every earlier load has elapsed, read the files.
C16_PolicyCache ==
  \A j \in 1..Len(loaderLog) :
    IsCall(loaderLog[j]) =>
      /\ \A i \in 1..(j - 1) :
           (/\ loaderLog[i].kind = "loaded"
            /\ loaderLog[j].at - loaderLog[i].at < CACHE_TTL
            /\ NoClearBetween(i, j))
           => (loaderLog[j].kind = "hit" /\ loaderLog[j].snapshot = loaderLog[i].snapshot)
      /\ (\E i \in 1..(j - 1) :
            /\ loaderLog[i].kind = "clear"
            /\ \A k \in (i + 1)..(j - 1) : ~IsCall(loaderLog[k]))
         => loaderLog[j].kind = "miss"
      /\ (\A i \in 1..(j - 1) :
            loaderLog[i].kind = "loaded" => loaderLog[j].at - loaderLog[i].at >= CACHE_TTL)
         => loaderLog[j].kind = "miss"

\* the same, when no load is in flight at a clearCache or at the return of
\* another load
C16_PolicyCacheSequential ==
  (\A j \in 1..Len(loaderLog) :
     loaderLog[j].kind \in {"clear", "loaded"} =>
       \A i \in 1..(j - 1) :
         loaderLog[i].kind = "miss" =>
           \E k \in (i + 1)..j : loaderLog[k].kind = "loaded" /\ loaderLog[k].call = loaderLog[i].call)
  => C16_PolicyCache

----------------------------------------------------------------------------
(* AdvancedPatternRecognition.calculateAccuracyMetrics.  The two real-      *)
(* valued fields are kept as exact fractions num/den: overallConfidence in  *)
(* units of 1/Scale, accuracyScore in units of 1 with the weights 1.0, 0.8  *)
(* and 0.5 in tenths.                                                       *)

RECURSIVE TotalConfidenceFrom(_, _)
TotalConfidenceFrom(list, i) ==
  IF i > Len(list) THEN 0 ELSE list[i].confidence + TotalConfidenceFrom(list, i + 1)

\* calculateAccuracyMetrics with a medium bucket that includes 0.9
MutMetricsMediumUpTo(list) ==
  IF Len(list) = 0
  THEN [ overallConfidence |-> [num |-> 0, den |-> 1], highConfidenceCount |-> 0,
         mediumConfidenceCount |-> 0, lowConfidenceCount |-> 0,
         accuracyScore |-> [num |-> 0, den |-> 1] ]
  ELSE LET high == Len(SelectSeq(list, LAMBDA r : 10 * r.confidence >= 9 * Scale))
           medium == Len(SelectSeq(list, LAMBDA r : /\ 10 * r.confidence >= 7 * Scale
                                                    /\ 10 * r.confidence <= 9 * Scale))
           low == Len(SelectSeq(list, LAMBDA r : 10 * r.confidence < 7 * Scale))
       IN [ overallConfidence |-> [num |-> TotalConfidenceFrom(list, 1), den |-> Len(list)],
            highConfidenceCount |-> high, mediumConfidenceCount |-> medium,
            lowConfidenceCount |-> low,
            accuracyScore |-> [num |-> high * 10 + medium * 8 + low * 5, den |-> Len(list) * 10] ]

calculateAccuracyMetrics(list) ==
  IF Len(list) = 0
  THEN [ overallConfidence |-> [num |-> 0, den |-> 1],
         highConfidenceCount |-> 0,
         mediumConfidenceCount |-> 0,
         lowConfidenceCount |-> 0,
         accuracyScore |-> [num |-> 0, den |-> 1] ]
  ELSE LET highConfidenceCount ==
             Len(SelectSeq(list, LAMBDA r : 10 * r.confidence >= 9 * Scale))
           mediumConfidenceCount ==
             Len(SelectSeq(list, LAMBDA r : /\ 10 * r.confidence >= 7 * Scale
                                            /\ 10 * r.confidence < 9 * Scale))
           lowConfidenceCount ==
             Len(SelectSeq(list, LAMBDA r : 10 * r.confidence < 7 * Scale))
       IN [ overallConfidence |-> [num |-> TotalConfidenceFrom(list, 1), den |-> Len(list)],
            highConfidenceCount |-> highConfidenceCount,
            mediumConfidenceCount |-> mediumConfidenceCount,
            lowConfidenceCount |-> lowConfidenceCount,
            accuracyScore |->
              [num |-> highConfidenceCount * 10 + mediumConfidenceCount * 8 + lowConfidenceCount * 5,
               den |-> Len(list) * 10] ]

\* confidences of the results handed to calculateAccuracyMetrics: those the
\* detector produces, the bucket limits and the ends of the range
MetricConfidences == {0, 50000, 61600, 70000, 72000, 85500, 90000, 95000, 100000}

MaxResults == 3

RECURSIVE MetricLists(_)
MetricLists(n) ==
  IF n = 0 THEN {<<>>}
  ELSE MetricLists(n - 1) \cup
       { Append(s, [service |-> "app-service", confidence |-> c, evidence |-> <<>>,
                    matchType |-> "keyword"])
           : s \in {q \in MetricLists(n - 1) : Len(q) = n - 1}, c \in MetricConfidences }

InitMetrics ==
  /\ metricResults \in MetricLists(MaxResults)
  /\ metrics = <<>>
  /\ metricStage = "call"
  /\ diagramStage = "idle"
  /\ accuracyScore = <<>>
  /\ analysis = <<>>
  /\ DetectIdle /\ RuleIdle /\ LoaderIdle

CalculateAccuracyMetrics ==
  /\ metricStage = "call"
  /\ metrics' = << calculateAccuracyMetrics(metricResults) >>
  /\ metricStage' = "returned"
  /\ UNCHANGED <<metricResults, diagramStage, accuracyScore, analysis>>
  /\ UNCHANGED <<detectVars, ruleVars, loaderVars>>

NextMetrics == CalculateAccuracyMetrics

SpecMetrics == InitMetrics /\ [][NextMetrics]_vars

----------------------------------------------------------------------------
(* Properties of calculateAccuracyMetrics, checked under SpecMetrics.       *)

MetricsReturned == metricStage = "returned"

\* the results of the argument whose confidence lies in [lo, hi), in tenths
InBucket(lo, hi) ==
  { i \in 1..Len(metricResults) :
      /\ 10 * metricResults[i].confidence >= lo * Scale
      /\ 10 * metricResults[i].confidence < hi * Scale }

RECURSIVE SumOver(_)
SumOver(indices) ==
  IF indices = {} THEN 0
  ELSE LET i == CHOOSE x \in indices : TRUE
       IN metricResults[i].confidence + SumOver(indices \ {i})

\* C14: calculateAccuracyMetrics returns zero in every field for the empty
\* list; for a non-empty list the three counts are the sizes of the buckets
\* high (>= 0.9), medium ([0.7, 0.9)) and low (< 0.7), which partition the
\* list, overallConfidence is the mean confidence, and accuracyScore is
\* (high * 1.0 + medium * 0.8 + low * 0.5) / total, between 0.5 and 1.0.
C14_AccuracyMetrics ==
  MetricsReturned =>
    LET m == metrics[1]
        total == Len(metricResults)
        high == Cardinality(InBucket(9, 11))
        medium == Cardinality(InBucket(7, 9))
        low == Cardinality({ i \in 1..total : 10 * metricResults[i].confidence < 7 * Scale })
    IN IF total = 0
       THEN /\ m.overallConfidence.num = 0 /\ m.overallConfidence.den # 0
            /\ m.accuracyScore.num = 0 /\ m.accuracyScore.den # 0
            /\ m.highConfidenceCount = 0
            /\ m.mediumConfidenceCount = 0
            /\ m.lowConfidenceCount = 0
       ELSE /\ m.highConfidenceCount = high
            /\ m.mediumConfidenceCount = medium
            /\ m.lowConfidenceCount = low
            /\ m.highConfidenceCount + m.mediumConfidenceCount + m.lowConfidenceCount = total
            /\ m.overallConfidence.den > 0
            /\ m.overallConfidence.num * total = SumOver(1..total) * m.overallConfidence.den
            /\ m.accuracyScore.den > 0
            /\ m.accuracyScore.num * 10 * total = (high * 10 + medium * 8 + low * 5) * m.accuracyScore.den
            /\ 2 * m.accuracyScore.num >= m.accuracyScore.den
            /\ m.accuracyScore.num <= m.accuracyScore.den

\* C14 witness: a list of three results, one in each bucket and one of them at
\* the limit 0.9, has been measured
C14_Witness ==
  /\ MetricsReturned
  /\ Len(metricResults) = 3
  /\ metrics[1].highConfidenceCount = 1
  /\ metrics[1].mediumConfidenceCount = 1
  /\ metrics[1].lowConfidenceCount = 1
  /\ \E i \in 1..3 : metricResults[i].confidence = 90000

----------------------------------------------------------------------------
(* Properties of the tier order and of the context validators, checked     *)
(* under Spec.                                                             *)

\* the service's canonical or an alternative resource type occurs in the text
ExactMatches(s, service) ==
  \/ includes(toLowerCase(s), toLowerCase(service.resourceType))
  \/ \E k \in 1..Len(service.alternativeResourceTypes) :
       includes(toLowerCase(s), toLowerCase(service.alternativeResourceTypes[k]))

\* the patterns of the service that match the text
MatchingPatterns(s, service) ==
  {k \in 1..Len(service.textPatterns) : match(s, service.textPatterns[k]) # <<>>}

\* the matched token of pattern k
MatchedToken(s, service, k) == match(s, service.textPatterns[k])[1]

\* the patterns that match and whose match the validator accepts
ValidatedPatterns(s, service) ==
  {k \in MatchingPatterns(s, service) :
     validatePatternContext(MatchedToken(s, service, k), s, service).isValid}

\* the keywords that occur in the text
OccurringKeywords(s, service) ==
  {k \in 1..Len(service.keywords) : includes(toLowerCase(s), toLowerCase(service.keywords[k]))}

ValidatedKeywords(s, service) ==
  {k \in OccurringKeywords(s, service) :
     validateKeywordContext(service.keywords[k], s, service).isValid}

AliasNames(service) == service.aliases \o service.commonNames \o service.abbreviations

ValidatedAliases(s, service) ==
  {k \in 1..Len(AliasNames(service)) :
     /\ includes(toLowerCase(s), toLowerCase(AliasNames(service)[k]))
     /\ validateAliasContext(AliasNames(service)[k], s, service).isValid}

Least(S) == CHOOSE k \in S : \A j \in S : k <= j

\* the returned list holds exactly this one entry for the service
RecordsOnly(service, matchType, matchedText) ==
  /\ Len(EntriesFor(service.id)) = 1
  /\ EntriesFor(service.id)[1].matchType = matchType
  /\ EntriesFor(service.id)[1].matchedText = matchedText

\* C18: per service the tiers are tried in the order exact, pattern, keyword,
\* alias and at most one result is recorded, from the first tier with a
\* validated match: the first pattern that matches and validates is recorded
\* even when earlier patterns matched and were rejected, the keyword tier is
\* used iff no pattern matched and validated, the alias tier iff no keyword did.
C18_TierOrder ==
  Returned /\ ~Blocklisted(text) =>
    \A i \in 1..Len(services) :
      LET service == services[i]
          P == ValidatedPatterns(text, service)
          K == ValidatedKeywords(text, service)
          A == ValidatedAliases(text, service)
      IN  IF ExactMatches(text, service)
          THEN RecordsOnly(service, "exact", service.resourceType)
          ELSE IF P # {}
          THEN RecordsOnly(service, "pattern", MatchedToken(text, service, Least(P)))
          ELSE IF K # {}
          THEN /\ RecordsOnly(service, "keyword", service.keywords[Least(K)])
               /\ EntriesFor(service.id)[1].confidence = service.confidence.keyword
          ELSE IF A # {}
          THEN /\ RecordsOnly(service, "keyword", AliasNames(service)[Least(A)])
               /\ EntriesFor(service.id)[1].confidence = (service.confidence.keyword * 9) \div 10
          ELSE EntriesFor(service.id) = <<>>

\* C18 witness: a returned run in which a service's earlier pattern matched and
\* was rejected and a later pattern of the same service is the recorded result,
\* and another service fell through to its keyword tier
C18_Witness ==
  /\ Returned
  /\ ~Blocklisted(text)
  /\ \E i \in 1..Len(services) :
       LET service == services[i]
       IN  /\ ~ExactMatches(text, service)
           /\ ValidatedPatterns(text, service) # {}
           /\ \E k \in MatchingPatterns(text, service) :
                k < Least(ValidatedPatterns(text, service))
           /\ RecordsOnly(service, "pattern",
                          MatchedToken(text, service, Least(ValidatedPatterns(text, service))))
  /\ \E i \in 1..Len(services) :
       LET service == services[i]
       IN  /\ ~ExactMatches(text, service)
           /\ ValidatedPatterns(text, service) = {}
           /\ ValidatedKeywords(text, service) # {}
           /\ Len(EntriesFor(service.id)) = 1

\* a strong cloud-context marker occurs in the text
StrongCloudMarkers == {"azure", "microsoft", "cloud", "bicep", "arm template"}

HasCloudMarker(s) == \E marker \in StrongCloudMarkers : includes(toLowerCase(s), marker)

\* a keyword of the service other than the matched token occurs in the text
HasOtherKeyword(s, service, token) ==
  \E k \in OccurringKeywords(s, service) : toLowerCase(service.keywords[k]) # toLowerCase(token)

\* C19: a pattern match is valid with multiplier 1.0 iff the text contains a
\* strong cloud-context marker, otherwise valid with multiplier 0.8 iff a keyword
\* of the same service other than the matched token occurs in the text, otherwise
\* invalid; every pattern-tier result has confidence pattern weight times 1.0
\* or times 0.8.
C19_PatternValidation ==
  Returned =>
    /\ \A i \in 1..Len(services) : \A k \in MatchingPatterns(text, services[i]) :
         LET service == services[i]
             token == MatchedToken(text, service, k)
             v == validatePatternContext(token, text, service)
         IN  /\ (v.isValid /\ v.confidenceMultiplier = 10) <=> HasCloudMarker(text)
             /\ (v.isValid /\ v.confidenceMultiplier = 8) <=>
                  (~HasCloudMarker(text) /\ HasOtherKeyword(text, service, token))
             /\ ~v.isValid <=> (~HasCloudMarker(text) /\ ~HasOtherKeyword(text, service, token))
    /\ \A j \in 1..Len(detections) :
         detections[j].matchType = "pattern" =>
           LET service == getServiceById(detections[j].service)[1]
           IN  /\ detections[j].confidence \in
                    {service.confidence.pattern, (service.confidence.pattern * 8) \div 10}
               /\ detections[j].confidence = service.confidence.pattern <=> HasCloudMarker(text)

\* C19 witness: a returned run without cloud marker in which one service's
\* pattern match is corroborated by another keyword and recorded at 0.8 of the
\* pattern weight, and another service's pattern match is rejected
C19_Witness ==
  /\ Returned
  /\ ~Blocklisted(text)
  /\ ~HasCloudMarker(text)
  /\ \E j \in 1..Len(detections) :
       /\ detections[j].matchType = "pattern"
       /\ detections[j].confidence =
            (getServiceById(detections[j].service)[1].confidence.pattern * 8) \div 10
  /\ \E i \in 1..Len(services) :
       /\ MatchingPatterns(text, services[i]) # {}
       /\ ValidatedPatterns(text, services[i]) = {}

\* C19 witness for the first branch: a pattern result at the full pattern weight
C19_WitnessMarker ==
  /\ Returned
  /\ HasCloudMarker(text)
  /\ \E j \in 1..Len(detections) :
       /\ detections[j].matchType = "pattern"
       /\ detections[j].confidence = getServiceById(detections[j].service)[1].confidence.pattern

\* 0-based start indices of the occurrences of p in s
Occurrences(s, p) == {i - 1 : i \in {j \in 1..(Len(s) - Len(p) + 1) : StartsAt(s, j, p)}}

NegationWords == {"not", "without", "instead of", "rather than", "except"}

GenericTerms ==
  {"database", "storage", "server", "application", "network", "web application", "file storage"}

\* (a) the keyword is not generic, or the text names the vendor or the service's type
HasRequiredContext(s, service, keyword) ==
  \/ toLowerCase(keyword) \notin GenericTerms
  \/ includes(toLowerCase(s), "azure")
  \/ includes(toLowerCase(s), "microsoft")
  \/ includes(toLowerCase(s), toLowerCase(service.resourceType))

\* a negation word starts less than 50 characters from an occurrence of the keyword
NegationNear(s, keyword) ==
  \E word \in NegationWords :
    \E n \in Occurrences(toLowerCase(s), word) :
      \E at \in Occurrences(toLowerCase(s), toLowerCase(keyword)) : Abs(at - n) < 50

\* a negation word's first occurrence starts less than 50 characters from the
\* first occurrence of the keyword
FirstNegationNearFirst(s, keyword) ==
  \E word \in NegationWords :
    /\ Occurrences(toLowerCase(s), word) # {}
    /\ Abs(Least(Occurrences(toLowerCase(s), toLowerCase(keyword)))
           - Least(Occurrences(toLowerCase(s), word))) < 50

\* C20: a keyword match is accepted (multiplier 1.0) iff (a) the keyword is not
\* a generic term or the text contains 'azure', 'microsoft' or the service's
\* canonical resource type, and (b) no negation word occurs within 50
\* characters of an occurrence of the keyword.
C20_KeywordValidation ==
  Returned =>
    \A i \in 1..Len(services) : \A k \in OccurringKeywords(text, services[i]) :
      LET service == services[i]
          keyword == service.keywords[k]
          v == validateKeywordContext(keyword, text, service)
      IN  /\ v.isValid <=> (HasRequiredContext(text, service, keyword) /\ ~NegationNear(text, keyword))
          /\ v.isValid => v.confidenceMultiplier = 10

\* what validateKeywordContext does hold to: (b) read on the first occurrence
\* of the keyword and the first occurrence of each negation word alone
C20_FirstOccurrencesOnly ==
  Returned =>
    \A i \in 1..Len(services) : \A k \in OccurringKeywords(text, services[i]) :
      LET service == services[i]
          keyword == service.keywords[k]
          v == validateKeywordContext(keyword, text, service)
      IN  /\ v.isValid <=>
               (HasRequiredContext(text, service, keyword) /\ ~FirstNegationNearFirst(text, keyword))
          /\ v.isValid => v.confidenceMultiplier = 10

\* a returned run in which a keyword is recorded although a negation word
\* stands less than 50 characters from it
C20_NegatedKeywordRecorded ==
  /\ Returned
  /\ \E i \in 1..Len(services) : \E k \in OccurringKeywords(text, services[i]) :
       /\ NegationNear(text, services[i].keywords[k])
       /\ Len(EntriesFor(services[i].id)) = 1
       /\ EntriesFor(services[i].id)[1].matchType = "keyword"
       /\ EntriesFor(services[i].id)[1].matchedText = services[i].keywords[k]
       /\ EntriesFor(services[i].id)[1].confidence = services[i].confidence.keyword

----------------------------------------------------------------------------
(* Alias validation and the order of the returned lists.                   *)

\* the entry of the returned list was recorded by the alias tier of its service
FromAliasTier(entry) ==
  LET service == getServiceById(entry.service)[1]
  IN  /\ ~ExactMatches(text, service)
      /\ ValidatedPatterns(text, service) = {}
      /\ ValidatedKeywords(text, service) = {}

\* the text names the vendor or the service's display name
HasAliasContext(s, service) ==
  \/ includes(toLowerCase(s), "azure")
  \/ includes(toLowerCase(s), "microsoft")
  \/ includes(toLowerCase(s), toLowerCase(service.displayName))

\* the string is one of the service's abbreviations, letter case aside
IsAbbreviation(service, name) ==
  \E k \in 1..Len(service.abbreviations) :
    toLowerCase(service.abbreviations[k]) = toLowerCase(name)

\* C21: an alias-tier result whose matched string is one of the service's
\* abbreviations, compared case-insensitively, is returned only for a text
\* that contains 'azure', 'microsoft' or the service's display name.
C21_AbbreviationNeedsContext ==
  Returned =>
    \A j \in 1..Len(detections) :
      LET service == getServiceById(detections[j].service)[1]
      IN  (FromAliasTier(detections[j]) /\ IsAbbreviation(service, detections[j].matchedText))
            => HasAliasContext(text, service)

\* what validateAliasContext does hold to: the same for a matched string that
\* is written in the catalog exactly as the abbreviation is
C21_AbbreviationAsWritten ==
  Returned =>
    \A j \in 1..Len(detections) :
      LET service == getServiceById(detections[j].service)[1]
      IN  (FromAliasTier(detections[j])
           /\ SeqIncludes(service.abbreviations, detections[j].matchedText))
            => HasAliasContext(text, service)

\* a returned run in which an alias-tier result rests on an abbreviation in
\* another letter case, without context
C21_AbbreviationWithoutContext ==
  /\ Returned
  /\ \E j \in 1..Len(detections) :
       LET service == getServiceById(detections[j].service)[1]
       IN  /\ FromAliasTier(detections[j])
           /\ IsAbbreviation(service, detections[j].matchedText)
           /\ ~HasAliasContext(text, service)
           /\ detections[j].confidence = (((service.confidence.keyword * 9) \div 10) * 10) \div 10

----------------------------------------------------------------------------
(* Runs of detectService and runs of analyzeServices, side by side.        *)

InitDetection == Init \/ InitAnalyze

NextDetection == Next \/ NextAnalyze

SpecDetection == InitDetection /\ [][NextDetection]_vars

SortedDescending(list) ==
  \A i \in 1..(Len(list) - 1) : list[i].confidence >= list[i + 1].confidence

\* C22: the list detectService returns and the list analyzeServices returns
\* are sorted by confidence in non-increasing order.
C22_SortedDescending ==
  /\ Returned => SortedDescending(detections)
  /\ AnalyzeReturned => SortedDescending(ranked)

\* C22 witness: analyzeServices has returned three or more services in another
\* order than the merge met them in, and detectService, called by the text
\* pass on the bundle's text, returned its results in another order than the
\* service loop recorded them in
C22_Witness ==
  /\ AnalyzeReturned
  /\ Len(ranked) >= 3
  /\ ranked # AboveFloor(serviceMap)
  /\ \E i \in 1..(Len(ranked) - 1) : ranked[i].confidence > ranked[i + 1].confidence
  /\ Len(detectService(TextContent(processedFile))) >= 2
  /\ detectService(TextContent(processedFile)) # ServiceLoopFrom(TextContent(processedFile), 1)

----------------------------------------------------------------------------
(* The structural pass, checked under SpecAnalyze.                         *)

StructureDone == stage \in {"visual", "context", "merge", "returned"}

\* the partial results that carry structural evidence, in the order of `results`
StructuralResults == SelectSeq(results, LAMBDA r : r.evidence[1].type = "structural")

\* the structural elements of the bundle: the elements of a Draw.io bundle,
\* the shapes of a Visio bundle, <<>> when it carries none
StructuralElements ==
  LET data == processedFile.extractedData
  IN  IF processedFile.format = "drawio" /\ data # <<>> /\ data[1].elements # <<>>
      THEN data[1].elements[1]
      ELSE IF processedFile.format = "vsdx" /\ data # <<>> /\ data[1].shapes # <<>>
      THEN data[1].shapes[1]
      ELSE <<>>

\* the text fields of one element, as the pass hands them to detectService
ElementText(element) ==
  IF processedFile.format = "drawio"
  THEN element.text \o " " \o element.label \o " " \o element.value \o " " \o element.style
  ELSE element.text \o " " \o element.name \o " " \o element.masterName

\* the geometry of an element, <<>> when it has none (a Visio shape has none)
ElementGeometry(element) ==
  IF processedFile.format = "drawio" THEN element.geometry ELSE <<>>

\* what detectService returns for each element's text
ElementDetections ==
  [k \in 1..Len(StructuralElements) |-> detectService(ElementText(StructuralElements[k]))]

\* C23: the structural pass contributes nothing for a bundle without a list
\* of structural elements, and for a bundle with one it contributes, per
\* element and in element order, at most one result: none for an element
\* without detection, else a detection of maximum confidence among those
\* detectService returns for the element's text fields, with one evidence
\* item of type structural and the element's geometry as position when it
\* has one.
C23_StructuralPass ==
  StructureDone =>
    LET found == ElementDetections
        detected == {k \in DOMAIN found : found[k] # <<>>}
        structural == StructuralResults
    IN  /\ Len(structural) = Cardinality(detected)
        /\ \A k \in detected :
             LET r == structural[Cardinality({i \in detected : i <= k})]
             IN  /\ \A i \in 1..Len(found[k]) : found[k][i].confidence <= r.confidence
                 /\ \E i \in 1..Len(found[k]) :
                      found[k][i].service = r.service /\ found[k][i].confidence = r.confidence
                 /\ Len(r.evidence) = 1
                 /\ r.evidence[1].type = "structural"
                 /\ r.evidence[1].confidence = r.confidence
                 /\ r.position = ElementGeometry(StructuralElements[k])

\* C23 witness: a bundle of two elements, the first without detection, the
\* second with geometry and detections of different confidences, has
\* contributed exactly one structural result, the detection of greater
\* confidence
C23_Witness ==
  /\ StructureDone
  /\ Len(StructuralElements) = 2
  /\ ElementDetections[1] = <<>>
  /\ Len(ElementDetections[2]) >= 2
  /\ ElementDetections[2][2].confidence < ElementDetections[2][1].confidence
  /\ ElementGeometry(StructuralElements[2]) # <<>>
  /\ Len(StructuralResults) = 1
  /\ StructuralResults[1].confidence = ElementDetections[2][1].confidence
  /\ StructuralResults[1].position # <<>>

----------------------------------------------------------------------------
(* The double-precision arithmetic of the accuracy score.  A non-negative   *)
(* real is a sequence of bits, least significant first, counting units of   *)
(* 2^-53; every operation rounds its exact result to 53 significant bits,   *)
(* ties to even, as IEEE 754 binary64 does.                                 *)

RECURSIVE NatBits(_)
\* the bits of a natural number, least significant first, no leading zero
NatBits(n) == IF n = 0 THEN <<>> ELSE <<n % 2>> \o NatBits(n \div 2)

Zeros(k) == [i \in 1..k |-> 0]

\* without the zero bits at the most significant end
StripZeros(a) ==
  LET ones == {i \in 1..Len(a) : a[i] = 1}
  IN  IF ones = {} THEN <<>>
      ELSE SubSeq(a, 1, CHOOSE i \in ones : \A j \in ones : j <= i)

BitAt(a, i) == IF i >= 1 /\ i <= Len(a) THEN a[i] ELSE 0

RECURSIVE AddFromBit(_, _, _, _)
AddFromBit(a, b, i, carry) ==
  IF i > Len(a) /\ i > Len(b)
  THEN IF carry = 1 THEN <<1>> ELSE <<>>
  ELSE LET sum == BitAt(a, i) + BitAt(b, i) + carry
       IN  <<sum % 2>> \o AddFromBit(a, b, i + 1, sum \div 2)

\* a + b, exact
AddBits(a, b) == StripZeros(AddFromBit(a, b, 1, 0))

\* a * 2^k, exact
ShiftLeft(a, k) == IF a = <<>> THEN <<>> ELSE Zeros(k) \o a

RECURSIVE MulFromBit(_, _, _)
MulFromBit(a, mbits, i) ==
  IF i > Len(mbits) THEN <<>>
  ELSE AddBits(IF mbits[i] = 1 THEN ShiftLeft(a, i - 1) ELSE <<>>, MulFromBit(a, mbits, i + 1))

\* a * m for a natural number m, exact
MulBits(a, m) == MulFromBit(a, NatBits(m), 1)

\* the exact value a, or a plus a positive remainder when sticky, rounded to
\* 53 significant bits, ties to even
RoundBits(a, sticky) ==
  IF Len(a) <= 53 THEN a
  ELSE LET k == Len(a) - 53
           guard == a[k]
           rest == sticky \/ \E i \in 1..(k - 1) : a[i] = 1
           kept == Zeros(k) \o SubSeq(a, k + 1, Len(a))
       IN  IF guard = 1 /\ (rest \/ a[k + 1] = 1)
           THEN AddBits(kept, Zeros(k) \o <<1>>)
           ELSE kept

RECURSIVE PowerOfTwoMod(_, _)
\* 2^k modulo n
PowerOfTwoMod(k, n) ==
  IF k = 0 THEN 1 % n
  ELSE LET half == PowerOfTwoMod(k \div 2, n)
       IN  (half * half * (IF k % 2 = 1 THEN 2 ELSE 1)) % n

RECURSIVE RemainderOfBits(_, _, _, _)
\* the number written by the bits lo..hi of a, modulo n
RemainderOfBits(a, n, lo, hi) ==
  IF lo > hi THEN 0
  ELSE IF lo = hi THEN a[lo] % n
  ELSE LET mid == (lo + hi) \div 2
       IN  (RemainderOfBits(a, n, mid + 1, hi) * PowerOfTwoMod(mid - lo + 1, n)
              + RemainderOfBits(a, n, lo, mid)) % n

\* a / n rounded; `guard` bits are kept below the unit of a before the
\* rounding, so the quotient counts units of 2^-(53 + guard)
DivBits(a, n, guard) ==
  LET dividend == ShiftLeft(a, guard)
      quotient == [i \in 1..Len(dividend) |->
                     (2 * RemainderOfBits(dividend, n, i + 1, Len(dividend))
                        + dividend[i]) \div n]
  IN  RoundBits(StripZeros(quotient), RemainderOfBits(dividend, n, 1, Len(dividend)) # 0)

\* -1, 0 or 1 as a < b, a = b or a > b, for a and b without leading zeros
CompareBits(a, b) ==
  IF Len(a) # Len(b) THEN (IF Len(a) > Len(b) THEN 1 ELSE -1)
  ELSE LET differ == {i \in 1..Len(a) : a[i] # b[i]}
           top == CHOOSE i \in differ : \A j \in differ : j <= i
       IN  IF differ = {} THEN 0 ELSE IF a[top] > b[top] THEN 1 ELSE -1

\* the double 0.8 = 0x1999999999999A * 2^-53
EightTenths ==
  <<0, 1, 0, 1>> \o [i \in 1..48 |-> IF i % 4 \in {0, 1} THEN 1 ELSE 0] \o <<1>>

\* sign of (high * 1.0 + medium * 0.8 + low * 0.5) / total - 0.8 as computed
\* in double precision
CompareScoreToEightTenths(high, medium, low) ==
  LET guard == 8
      one == ShiftLeft(<<1>>, 53)
      half == ShiftLeft(<<1>>, 52)
      mediumTerm == RoundBits(MulBits(EightTenths, medium), FALSE)
      sum1 == RoundBits(AddBits(MulBits(one, high), mediumTerm), FALSE)
      sum2 == RoundBits(AddBits(sum1, MulBits(half, low)), FALSE)
      quotient == DivBits(sum2, high + medium + low, guard)
  IN  CompareBits(quotient, ShiftLeft(EightTenths, guard))

----------------------------------------------------------------------------
(* AnalyzerAgent.analyzeDiagram from the validation of the processed file   *)
(* on: validateAzureDiagram, analyzeServices, calculateAccuracyMetrics and  *)
(* the choice between the detector's results and the AI agent.  Of the      *)
(* returned DiagramAnalysis the resources are kept (type, name, the         *)
(* detection confidence and the detectedBy tag), which tell the two         *)
(* sources apart.                                                           *)

\* the text validateAzureDiagram hands to validateAzureContent
ContentToValidate(file) ==
  LET first(fields) == IF Truthy(fields) = <<>> THEN "" ELSE Truthy(fields)[1]
      extracted ==
        IF file.extractedData = <<>> THEN ""
        ELSE LET data == file.extractedData[1]
             IN  CASE file.format = "drawio" ->
                        LET elements == IF data.elements # <<>> THEN data.elements[1] ELSE <<>>
                        IN  JoinWith([i \in 1..Len(elements) |->
                                        first(<<elements[i].text, elements[i].label,
                                                elements[i].value>>)], " ")
                   [] file.format = "vsdx" ->
                        LET shapes == IF data.shapes # <<>> THEN data.shapes[1] ELSE <<>>
                        IN  JoinWith([i \in 1..Len(shapes) |->
                                        first(<<shapes[i].text, shapes[i].name>>)], " ")
                   [] file.format = "pdf" -> data.text
                   [] file.format = "svg" ->
                        IF data.textContent # <<>> THEN JoinWith(data.textContent[1], " ") ELSE ""
                   [] OTHER -> ""
  IN  extracted \o " " \o file.metadata.originalName

RECURSIVE SumConfidence(_, _)
SumConfidence(list, i) ==
  IF i > Len(list) THEN 0 ELSE list[i].confidence + SumConfidence(list, i + 1)

\* AzureServicesDatabase.validateAzureContent: isAzure
validateAzureContent(s) ==
  LET detectedServices == detectService(s)
  IN  [ isAzure |-> /\ Len(detectedServices) > 0
                    /\ 10 * SumConfidence(detectedServices, 1) > 7 * Scale * Len(detectedServices),
        detectedServices |-> [i \in 1..Len(detectedServices) |->
                                getServiceById(detectedServices[i].service)[1].displayName] ]

RECURSIVE ReplaceWhitespaceRuns(_, _)
\* String.prototype.replace(/\s+/g, sep)
ReplaceWhitespaceRuns(s, sep) ==
  IF s = "" THEN ""
  ELSE IF IsWhitespace(CharAt(s, 1))
       THEN IF Len(s) > 1 /\ IsWhitespace(CharAt(s, 2))
            THEN ReplaceWhitespaceRuns(SubSeq(s, 2, Len(s)), sep)
            ELSE sep \o ReplaceWhitespaceRuns(SubSeq(s, 2, Len(s)), sep)
       ELSE CharAt(s, 1) \o ReplaceWhitespaceRuns(SubSeq(s, 2, Len(s)), sep)

\* the resources of convertDetectionResultsToAnalysis
convertDetectionResultsToAnalysis(detectionResults) ==
  [ resources |->
      [index \in 1..Len(detectionResults) |->
         LET service == getServiceById(detectionResults[index].service)[1]
         IN  [ type |-> service.resourceType,
               name |-> ReplaceWhitespaceRuns(toLowerCase(service.displayName), "-")
                          \o "-" \o NatToStr(index),
               confidence |-> <<detectionResults[index].confidence>>,
               detectedBy |-> "enhanced-pattern-recognition" ]] ]

\* what callAzureAIFoundryAgent resolves to
AgentResult ==
  [ resources |-> << [type |-> "Microsoft.Web/sites", name |-> "webapp-frontend"],
                     [type |-> "Microsoft.Sql/servers/databases", name |-> "sqldb-main"],
                     [type |-> "Microsoft.Storage/storageAccounts", name |-> "storage001"] >> ]

parseAnalysisResult(result) ==
  [ resources |->
      [i \in 1..Len(result.resources) |->
         [ type |-> result.resources[i].type,
           name |-> result.resources[i].name,
           confidence |-> <<>>,
           detectedBy |-> "" ]] ]

\* accuracyMetrics.accuracyScore as the division of lines 617-621 yields it: the
\* exact fraction and the sign of the computed double minus the double 0.8
\* (0.8 is not a double, so three medium results give 0.8000000000000002 and
\* three high, one medium and two low results give 0.7999999999999999); of no
\* results the score is 0
ComputedScore(m) ==
  [num |-> m.accuracyScore.num, den |-> m.accuracyScore.den,
   sign |-> IF m.highConfidenceCount + m.mediumConfidenceCount + m.lowConfidenceCount = 0 THEN -1
            ELSE CompareScoreToEightTenths(m.highConfidenceCount, m.mediumConfidenceCount,
                                           m.lowConfidenceCount)]

\* the gate with accuracyMetrics.accuracyScore >= 0.8
MutScoreAtOrAboveThreshold(score) == score.sign >= 0

\* accuracyMetrics.accuracyScore > 0.8
ScoreAboveThreshold(score) == score.sign > 0

InitDiagram ==
  /\ text = ""
  /\ detections = <<>>
  /\ pc = "idle"
  /\ processedFile \in ProcessedFiles
  /\ results = <<>>
  /\ contextual = <<>>
  /\ serviceMap = <<>>
  /\ ranked = <<>>
  /\ stage = "validate"
  /\ metricResults = <<>>
  /\ metrics = <<>>
  /\ metricStage = "idle"
  /\ diagramStage = "validate"
  /\ accuracyScore = <<>>
  /\ analysis = <<>>
  /\ RuleIdle /\ LoaderIdle

\* await this.validateAzureDiagram(...): throws unless the content is Azure's
ValidateAzureDiagram ==
  /\ diagramStage = "validate"
  /\ IF validateAzureContent(ContentToValidate(processedFile)).isAzure
     THEN stage' = "text" /\ diagramStage' = "detect"
     ELSE stage' = "rejected" /\ diagramStage' = "threw"
  /\ UNCHANGED <<text, detections, pc, processedFile, results, contextual, serviceMap, ranked>>
  /\ UNCHANGED <<metricResults, metrics, metricStage, accuracyScore, analysis>>
  /\ UNCHANGED <<ruleVars, loaderVars>>

\* const accuracyMetrics = calculateAccuracyMetrics(detectionResults)
CalculateDiagramMetrics ==
  /\ diagramStage = "detect"
  /\ stage = "returned"
  /\ metricResults' = ranked
  /\ metrics' = << calculateAccuracyMetrics(ranked) >>
  /\ accuracyScore' = << ComputedScore(calculateAccuracyMetrics(ranked)) >>
  /\ diagramStage' = "metrics"
  /\ UNCHANGED <<metricStage, analysis>>
  /\ UNCHANGED <<detectVars, ruleVars, loaderVars>>

\* if (detectionResults.length > 0 && accuracyMetrics.accuracyScore > 0.8)
UseDetectionResults ==
  /\ diagramStage = "metrics"
  /\ Len(metricResults) > 0 /\ ScoreAboveThreshold(accuracyScore[1])
  /\ analysis' = << convertDetectionResultsToAnalysis(metricResults) >>
  /\ diagramStage' = "returned"
  /\ UNCHANGED <<metricResults, metrics, metricStage, accuracyScore>>
  /\ UNCHANGED <<detectVars, ruleVars, loaderVars>>

\* else: await this.callAzureAIFoundryAgent(...), then parseAnalysisResult
CallAzureAIFoundryAgent ==
  /\ diagramStage = "metrics"
  /\ ~(Len(metricResults) > 0 /\ ScoreAboveThreshold(accuracyScore[1]))
  /\ analysis' = << parseAnalysisResult(AgentResult) >>
  /\ diagramStage' = "returned"
  /\ UNCHANGED <<metricResults, metrics, metricStage, accuracyScore>>
  /\ UNCHANGED <<detectVars, ruleVars, loaderVars>>

NextDiagram ==
  \/ ValidateAzureDiagram
  \/ NextAnalyze
  \/ CalculateDiagramMetrics
  \/ UseDetectionResults
  \/ CallAzureAIFoundryAgent

SpecDiagram == InitDiagram /\ [][NextDiagram]_vars

----------------------------------------------------------------------------
(* Properties of analyzeDiagram, checked under SpecDiagram.                *)

DiagramReturned == diagramStage = "returned"

DiagramStates == diagramStage \in {"validate", "threw", "detect", "metrics", "returned"}

\* the ranked list is non-empty and the accuracy score computed of it is
\* greater than 0.8
DetectorGate ==
  /\ Len(ranked) > 0
  /\ ComputedScore(calculateAccuracyMetrics(ranked)).sign = 1

\* C24: analyzeDiagram builds its analysis from the detector's results iff the
\* detector returned a non-empty list and the accuracy score is strictly
\* greater than 0.8; in every other case (empty list, score at or below 0.8) the
\* agent is called and the resources of the analysis come from its response.
C24_DetectorGate ==
  DiagramReturned =>
    IF DetectorGate
    THEN analysis = << convertDetectionResultsToAnalysis(ranked) >>
    ELSE analysis = << parseAnalysisResult(AgentResult) >>

\* a returned run whose detector results score exactly 0.8 and whose analysis
\* holds the agent's resources
C24_Witness ==
  /\ DiagramReturned
  /\ Len(metricResults) > 0
  /\ accuracyScore[1].sign = 0
  /\ analysis = << parseAnalysisResult(AgentResult) >>
  /\ analysis # << convertDetectionResultsToAnalysis(ranked) >>

\* a returned run built from the detector's results
C24_WitnessDetector ==
  /\ DiagramReturned
  /\ DetectorGate
  /\ analysis = << convertDetectionResultsToAnalysis(ranked) >>
  /\ analysis # << parseAnalysisResult(AgentResult) >>

----------------------------------------------------------------------------
(* The contextual pass in the final output, checked under SpecAnalyze.     *)

\* every evidence item of the result is contextual
ContextualOnly(r) == \A e \in 1..Len(r.evidence) : r.evidence[e].type = "contextual"

\* pattern.confidence * 0.7 of the architectural patterns that hold the service
ImpliedConfidences(id) ==
  { (architecturalPatterns[p].confidence * 7) \div 10 :
      p \in {q \in 1..Len(architecturalPatterns) :
               SeqIncludes(architecturalPatterns[q].pattern, id)} }

\* C25: in the final output of analyzeServices a service with contextual
\* evidence only has confidence pattern.confidence * 0.7 of a pattern that
\* implied it and stays below 0.7, also when several patterns imply it.
C25_ContextualOnlyStaysLow ==
  AnalyzeReturned =>
    \A i \in 1..Len(ranked) :
      ContextualOnly(ranked[i]) =>
        /\ ranked[i].confidence \in ImpliedConfidences(ranked[i].service)
        /\ 10 * ranked[i].confidence < 7 * Scale

\* a returned run in which a service inferred by two patterns, and detected by
\* no other pass, is a high-confidence result
C25_InferredTwiceIsHigh ==
  /\ AnalyzeReturned
  /\ \E i \in 1..Len(ranked) :
       /\ ContextualOnly(ranked[i])
       /\ Len(ranked[i].evidence) = 2
       /\ 10 * ranked[i].confidence >= 9 * Scale

\* what the output does hold to: a service inferred by exactly one pattern has
\* that pattern's confidence * 0.7
C25_InferredOnce ==
  AnalyzeReturned =>
    \A i \in 1..Len(ranked) :
      ContextualOnly(ranked[i]) /\ Len(ranked[i].evidence) = 1 =>
        /\ ranked[i].confidence \in ImpliedConfidences(ranked[i].service)
        /\ 10 * ranked[i].confidence < 7 * Scale

----------------------------------------------------------------------------
(* The fixes against the conditions they answer, checked under SpecRules.  *)

IsShipped(policyId) == \E i \in 1..Len(ShippedPolicies) : Get(ShippedPolicies[i], "id") = policyId

\* the fix of the i-th violation was applied
FixApplied(i) ==
  \E f \in 1..Len(fixedResources) :
    /\ fixedResources[f].policyId = violations[i].policyId
    /\ fixedResources[f].resourceName = violations[i].resource

\* the evaluation of the same policies on the resources as the fixes left them
\* reports the policy of the i-th violation against its resource again
ReportedAgain(i) ==
  \E j \in 1..Len(evaluateManualPolicies(resources, manualPolicies)) :
    LET again == evaluateManualPolicies(resources, manualPolicies)[j]
    IN  again.policyId = violations[i].policyId /\ again.resource = violations[i].resource

\* C26: fix convergence.  For every shipped policy and every resource on which
\* evaluateManualPolicies reported a violation of it, once
\* autoFixManualPolicyViolations has applied the violation's fix, evaluating
\* the policy on the resource reports no violation.
C26_FixConvergence ==
  FixesDone =>
    \A i \in 1..Len(violations) :
      IsShipped(violations[i].policyId) /\ FixApplied(i) => ~ReportedAgain(i)

\* a finished run in which the always-on policy was reported against a site
\* whose alwaysOn is true, its fix was applied and the policy is reported again
C26_AlwaysOnReportedAgain ==
  /\ FixesDone
  /\ \E i \in 1..Len(violations) :
       /\ violations[i].policyId = Str("perf-001-always-on")
       /\ violations[i].currentValue = Bool(TRUE)
       /\ FixApplied(i)
       /\ ReportedAgain(i)

----------------------------------------------------------------------------
(* One run of evaluateManualPolicies on the loader, suspended at its awaits *)
(* while the clock advances, the cache is cleared and the policy files      *)
(* change (SpecEvaluate).                                                   *)

EvalResources ==
  { Resource("aisuperman-web", "Microsoft.Web/sites",
             << Prop("properties", Obj(<< Prop("httpsOnly", Bool(TRUE)),
                                          Prop("siteConfig", Obj(<< Prop("alwaysOn", Bool(TRUE)) >>)) >>)) >>),
    Resource("stgdata", "Microsoft.Storage/storageAccounts",
             << Prop("properties", Obj(<< Prop("minimumTlsVersion", Str("TLS1_2")) >>)) >>),
    Resource("vm1", "Microsoft.Compute/virtualMachines", <<>>) }

\* the resource lists of a run: two resources of different types
EvalResourceLists ==
  { << a, b >> : a \in EvalResources, b \in EvalResources } \ { << a, a >> : a \in EvalResources }

InitEvaluate ==
  /\ policyDir \in PolicyDirs
  /\ cachedPolicies = <<>>
  /\ cacheTimestamp = 0
  /\ now = StartTime
  /\ calls = <<>>
  /\ loaderLog = <<>>
  /\ resources \in EvalResourceLists
  /\ manualPolicies = <<>>
  /\ violations = <<>>
  /\ fixedResources = <<>>
  /\ fixErrors = <<>>
  /\ ruleStage = "evaluate"
  /\ evalAwait = 0
  /\ evalIndex = 0
  /\ evalSnapshots = <<>>
  /\ totalPolicies = <<>>
  /\ DetectIdle /\ MetricIdle

\* the run calls this.manualPolicyLoader.loadPolicies(): the call runs up to
\* its return from the cache or its first await
CallLoadPolicies ==
  /\ evalAwait' = Len(calls) + 1
  /\ IF CacheIsValid
     THEN /\ calls' = Append(calls, [status |-> "returned", startedAt |-> now,
                                     result |-> cachedPolicies[1]])
          /\ loaderLog' = Append(loaderLog, [kind |-> "hit", call |-> Len(calls) + 1,
                                             at |-> now, snapshot |-> cachedPolicies[1]])
     ELSE /\ calls' = Append(calls, [status |-> "loading", startedAt |-> now, result |-> <<>>])
          /\ loaderLog' = Append(loaderLog, [kind |-> "miss", call |-> Len(calls) + 1,
                                             at |-> now, snapshot |-> <<>>])
  /\ UNCHANGED <<policyDir, cachedPolicies, cacheTimestamp, now>>

\* const manualPolicies = await this.manualPolicyLoader.loadPolicies(): the call
EvaluateLoadPolicies ==
  /\ ruleStage = "evaluate"
  /\ CallLoadPolicies
  /\ ruleStage' = "loading"
  /\ UNCHANGED <<resources, manualPolicies, violations, fixedResources, fixErrors,
                 evalIndex, evalSnapshots, totalPolicies>>
  /\ UNCHANGED <<detectVars, metricVars>>

\* the run resumes with manualPolicies; without policies it returns at once
EvaluateLoaded ==
  /\ ruleStage = "loading"
  /\ calls[evalAwait].status = "returned"
  /\ manualPolicies' = calls[evalAwait].result
  /\ evalAwait' = 0
  /\ IF Len(calls[evalAwait].result) = 0
     THEN ruleStage' = "returned" /\ totalPolicies' = << 0 >> /\ UNCHANGED evalIndex
     ELSE ruleStage' = "resource" /\ evalIndex' = 1 /\ UNCHANGED totalPolicies
  /\ UNCHANGED <<resources, violations, fixedResources, fixErrors, evalSnapshots>>
  /\ UNCHANGED <<detectVars, loaderVars, metricVars>>

\* await this.manualPolicyLoader.getPoliciesForResourceType(resource.type):
\* the call, which starts with a call of loadPolicies
EvaluateGetPolicies ==
  /\ ruleStage = "resource"
  /\ evalIndex <= Len(resources)
  /\ CallLoadPolicies
  /\ ruleStage' = "filtering"
  /\ UNCHANGED <<resources, manualPolicies, violations, fixedResources, fixErrors,
                 evalIndex, evalSnapshots, totalPolicies>>
  /\ UNCHANGED <<detectVars, metricVars>>

\* the run resumes with the applicable policies and evaluates the resource
EvaluateResource ==
  /\ ruleStage = "filtering"
  /\ calls[evalAwait].status = "returned"
  /\ LET allPolicies == calls[evalAwait].result
         resource == resources[evalIndex]
         applicablePolicies == getPoliciesForResourceType(allPolicies, Get(resource, "type"))
     IN  /\ violations' = violations \o ViolationsOf(resource, applicablePolicies, 1)
         /\ evalSnapshots' = Append(evalSnapshots, allPolicies)
  /\ evalIndex' = evalIndex + 1
  /\ evalAwait' = 0
  /\ ruleStage' = "resource"
  /\ UNCHANGED <<resources, manualPolicies, fixedResources, fixErrors, totalPolicies>>
  /\ UNCHANGED <<detectVars, loaderVars, metricVars>>

\* the loop is over: the result is built and returned
EvaluateReturn ==
  /\ ruleStage = "resource"
  /\ evalIndex > Len(resources)
  /\ totalPolicies' = << Len(manualPolicies) >>
  /\ ruleStage' = "returned"
  /\ UNCHANGED <<resources, manualPolicies, violations, fixedResources, fixErrors,
                 evalAwait, evalIndex, evalSnapshots>>
  /\ UNCHANGED <<detectVars, loaderVars, metricVars>>

NextEvaluate ==
  \/ EvaluateLoadPolicies
  \/ EvaluateLoaded
  \/ EvaluateGetPolicies
  \/ EvaluateResource
  \/ EvaluateReturn
  \/ LoadPoliciesResume
  \/ ClearCache
  \/ Tick
  \/ EditPolicyFiles

SpecEvaluate == InitEvaluate /\ [][NextEvaluate]_vars

----------------------------------------------------------------------------
(* Properties of the run, checked under SpecEvaluate.                       *)

EvaluationReturned == ruleStage = "returned"

\* C27: within one run of evaluateManualPolicies every resource is evaluated
\* against the same policy snapshot, the one that totalPolicies counts, also
\* when the TTL expires, the cache is cleared or the policy files change while
\* the run is suspended at an await.
C27_OneSnapshot ==
  EvaluationReturned =>
    /\ totalPolicies = << Len(manualPolicies) >>
    /\ \A k \in 1..Len(evalSnapshots) : evalSnapshots[k] = manualPolicies

\* a returned run whose second resource was evaluated against policies that
\* the first was not, one of them reported in a violation, and whose
\* totalPolicies counts the policies of the start
C27_SnapshotsDiffer ==
  /\ EvaluationReturned
  /\ Len(evalSnapshots) = 2
  /\ evalSnapshots[1] = manualPolicies
  /\ Len(evalSnapshots[2]) > totalPolicies[1]
  /\ \E i \in 1..Len(violations) :
       \A p \in 1..Len(manualPolicies) : Get(manualPolicies[p], "id") # violations[i].policyId

\* what the run does hold to when neither the files change nor does a load
\* fail: every snapshot has the policies of the start
C27_UneditedFiles ==
  EvaluationReturned /\ "custom" \notin DOMAIN policyDir =>
    /\ totalPolicies = << Len(manualPolicies) >>
    /\ \A k \in 1..Len(evalSnapshots) : evalSnapshots[k] = manualPolicies

----------------------------------------------------------------------------
(* The blocklist over a whole bundle, checked under SpecAnalyze.           *)

\* the text-bearing fields of the bundle: what its elements and shapes hold,
\* its extracted text and its file name
TextFields(file) ==
  LET elements == StructuralElements
      data == file.extractedData
  IN  { file.metadata.originalName }
      \cup UNION { IF file.format = "drawio"
                   THEN { elements[i].text, elements[i].label, elements[i].value, elements[i].style }
                   ELSE { elements[i].text, elements[i].name, elements[i].masterName }
                   : i \in 1..Len(elements) }
      \cup (IF data # <<>> THEN { data[1].text } ELSE {})

\* C28: if a text-bearing field of the bundle holds a non-Azure indicator,
\* analyzeServices returns no detection: neither the structural nor the
\* contextual pass brings back what the blocklist removed from the text pass.
C28_BlocklistedBundleIsEmpty ==
  AnalyzeReturned /\ (\E field \in TextFields(processedFile) : Blocklisted(field))
    => ranked = <<>>

\* a returned run on a bundle with an element that holds an indicator, in
\* which the text pass found nothing and the output holds a service the
\* structural pass found in another element
C28_OtherElementDetected ==
  /\ AnalyzeReturned
  /\ \E field \in TextFields(processedFile) : Blocklisted(field)
  /\ detectFromText(processedFile) = <<>>
  /\ \E i \in 1..Len(ranked) :
       \E e \in 1..Len(ranked[i].evidence) : ranked[i].evidence[e].type = "structural"

\* what the passes do hold to: the element that holds the indicator
\* contributes nothing, and the text pass contributes nothing
C28_BlocklistedElementIsSilent ==
  AnalyzeReturned =>
    /\ (\E field \in TextFields(processedFile) : Blocklisted(field))
         => \A i \in 1..Len(ranked) :
              \A e \in 1..Len(ranked[i].evidence) : ranked[i].evidence[e].type # "text"
    /\ \A k \in 1..Len(StructuralElements) :
         Blocklisted(ElementText(StructuralElements[k]))
           => ElementDetections[k] = <<>>

----------------------------------------------------------------------------
(* The confidence values, checked under SpecDetection.                     *)

\* exact 1.0, keyword 0.95, pattern 0.9 or 0.72, alias 0.855
DetectConfidences ==
  { Scale, (95 * Scale) \div 100, (9 * Scale) \div 10, (72 * Scale) \div 100,
    (855 * Scale) \div 1000 }

\* the partial result comes from the text or the structural pass
FromTextOrStructure(r) == r.evidence[1].type \in {"text", "structural"}

\* C29: with the shipped catalog and patterns every confidence detectService
\* returns is one of 1.0, 0.95, 0.9, 0.72 and 0.855, every confidence in the
\* output of analyzeServices lies in (0.5, 1.0], and the floor at 0.5 removes
\* no service that the text or the structural pass detected.
C29_ConfidenceValues ==
  /\ Returned => \A i \in 1..Len(detections) : detections[i].confidence \in DetectConfidences
  /\ AnalyzeReturned =>
       /\ \A i \in 1..Len(results) :
            FromTextOrStructure(results[i]) => results[i].confidence \in DetectConfidences
       /\ \A i \in 1..Len(ranked) :
            2 * ranked[i].confidence > Scale /\ ranked[i].confidence <= Scale
       /\ \A i \in 1..Len(results) :
            FromTextOrStructure(results[i]) =>
              \E j \in 1..Len(ranked) : ranked[j].service = results[i].service

\* C29 witness: a returned run of analyzeServices whose output holds a service
\* of the alias tier (0.855) and a service inferred from context below 0.7
C29_Witness ==
  /\ AnalyzeReturned
  /\ \E i \in 1..Len(results) :
       /\ FromTextOrStructure(results[i])
       /\ results[i].confidence = (855 * Scale) \div 1000
       /\ \E j \in 1..Len(ranked) : ranked[j].service = results[i].service
  /\ \E j \in 1..Len(ranked) : 10 * ranked[j].confidence < 7 * Scale

\* C29 witness for detectService: a returned call with a pattern result at 0.72
C29_WitnessDetect ==
  /\ Returned
  /\ \E i \in 1..Len(detections) : detections[i].confidence = (72 * Scale) \div 100

----------------------------------------------------------------------------
(* Which policies can be reported, checked under SpecRules.                *)

\* P.resourceTypes contains '*', R's type, or a prefix of R's type
TypeMatches(policy, resource) ==
  LET types == Get(policy, "resourceTypes").v
      resourceType == Get(resource, "type").v
  IN  \E i \in 1..Len(types) :
        \/ types[i].v = "*"
        \/ types[i].v = resourceType
        \/ /\ Len(types[i].v) <= Len(resourceType)
           /\ SubSeq(resourceType, 1, Len(types[i].v)) = types[i].v

\* the policy is the one the violation reports, the resource the one it names
ViolationOf(violation, policy, resource) ==
  /\ violation.policyId = Get(policy, "id")
  /\ violation.policyName = Get(policy, "name")
  /\ violation.fix = Get(policy, "fix")
  /\ violation.expectedValue = Get(Get(policy, "conditions"), "value")
  /\ violation.resource = Get(resource, "name")
  /\ violation.resourceType = Get(resource, "type")

\* C30: evaluateManualPolicies reports a violation of policy P on resource R
\* only if P is enabled and P.resourceTypes contains '*', R's type or a prefix
\* of R's type; a disabled policy, or one whose types match none of these,
\* produces no violation for R.
C30_OnlyApplicablePolicies ==
  Evaluated =>
    \A i \in 1..Len(violations) :
      \E p \in 1..Len(manualPolicies), r \in 1..Len(resources) :
        /\ ViolationOf(violations[i], manualPolicies[p], resources[r])
        /\ Get(manualPolicies[p], "enabled") = Bool(TRUE)
        /\ TypeMatches(manualPolicies[p], resources[r])

\* C30 witness: an evaluation with a disabled policy whose type matches the
\* resource and whose condition the resource meets, not reported, beside an
\* enabled policy that is reported
C30_Witness ==
  /\ Evaluated
  /\ Len(violations) > 0
  /\ \E p \in 1..Len(manualPolicies) :
       /\ Get(manualPolicies[p], "enabled") = Bool(FALSE)
       /\ TypeMatches(manualPolicies[p], resources[1])
       /\ evaluatePolicyCondition(manualPolicies[p], PolicyEvaluationContext(resources[1]))
       /\ \A i \in 1..Len(violations) : violations[i].policyId # Get(manualPolicies[p], "id")

\* C30 witness for the types: an evaluation of the shipped policies in which a
\* policy for another resource type, whose condition the resource meets, is
\* not reported, and a policy for every type ('*') is
C30_WitnessTypes ==
  /\ Evaluated
  /\ \E p \in 1..Len(manualPolicies) :
       /\ ~TypeMatches(manualPolicies[p], resources[1])
       /\ Get(manualPolicies[p], "enabled") = Bool(TRUE)
       /\ evaluatePolicyCondition(manualPolicies[p], PolicyEvaluationContext(resources[1]))
  /\ \E i \in 1..Len(violations), p \in 1..Len(manualPolicies) :
       /\ ViolationOf(violations[i], manualPolicies[p], resources[1])
       /\ Get(manualPolicies[p], "resourceTypes") = Arr(<< Str("*") >>)

=============================================================================
